---- MODULE Spec2Model ----
(***************************************************************************)
(* A model of rimd's Standard MIDI File codec: the variable length         *)
(* quantity (VLQ) reader and writer, the MIDI message and meta event       *)
(* decoders, the track chunk parser and writer, and the header parser.     *)
(*                                                                         *)
(* Bytes are naturals 0..255.  A u64 is a sequence of U64Limbs base-128    *)
(* limbs, least significant first; the last limb holds bit 63 only.  The   *)
(* 7-bit shifts and masks of the VLQ code are exact on this form, and the  *)
(* full 64-bit width is kept.                                              *)
(***************************************************************************)
EXTENDS Integers, Sequences, FiniteSets, TLC

VARIABLES
    pc,          \* position of the program in the scenario being run
    val,         \* the u64 handed to vtime_to_vec / write_vtime
    track,       \* the in-memory event list handed to the writer
    stream,      \* the bytes of the reader's source (or the writer's sink)
    pos,         \* index of the next unread byte of stream (1-based)
    res,         \* parse_track: events decoded so far
    read_so_far, \* parse_track: consumed byte counter
    len,         \* parse_track: declared chunk length
    copyright,   \* parse_track: captured copyright text
    name,        \* parse_track: captured track name
    last,        \* parse_track: status handed to the last next_event call
    wrote,       \* what the last writer call returned
    ret,         \* what the last decoder call (read_vtime, next_event, ...) returned
    result,      \* what parse_track / parse_header / read_smf returned
    writer,      \* the SMFWriter: format, ticks and the track chunks it holds
    chunks,      \* the track chunks that follow the bytes of stream in the sink
    smf,         \* the SMF being read by read_smf, or built by SMFBuilder::result
    builder      \* the SMFBuilder: its tracks' event heaps

vars == <<pc, val, track, stream, pos, res, read_so_far, len, copyright, name, last,
          wrote, ret, result, writer, chunks, smf, builder>>

trackVars == <<res, read_so_far, len, copyright, name, last>>

fileVars == <<writer, chunks, smf, builder>>

(***************************************************************************)
(* Bits and bytes                                                          *)
(***************************************************************************)
RECURSIVE BitAnd(_, _)
BitAnd(a, b) ==
    IF a = 0 \/ b = 0 THEN 0
    ELSE (IF a % 2 = 1 /\ b % 2 = 1 THEN 1 ELSE 0) + 2 * BitAnd(a \div 2, b \div 2)

RECURSIVE BitOr(_, _)
BitOr(a, b) ==
    IF a = 0 THEN b
    ELSE IF b = 0 THEN a
    ELSE (IF a % 2 = 1 \/ b % 2 = 1 THEN 1 ELSE 0) + 2 * BitOr(a \div 2, b \div 2)

\* Option<T>: None is the empty sequence, Some(x) the one-element sequence
None == <<>>
Some(x) == <<x>>

RECURSIVE Reverse(_)
Reverse(s) == IF s = <<>> THEN <<>> ELSE Reverse(Tail(s)) \o <<Head(s)>>

Take(s, n) == SubSeq(s, 1, n)

(***************************************************************************)
(* u64 as base-128 limbs                                                   *)
(***************************************************************************)
U64Limbs == 10

U64Zero == [k \in 1..U64Limbs |-> 0]

\* the limbs of a natural below 2^31
RECURSIVE NatLimbs(_, _)
NatLimbs(n, k) == IF k = 0 THEN <<>> ELSE <<n % 128>> \o NatLimbs(n \div 128, k - 1)

U64(n) == NatLimbs(n, U64Limbs)

\* x & 0x7F
U64Low7(x) == x[1]

\* x >> 7
U64Shr7(x) == Tail(x) \o <<0>>

\* x << 7, the bits shifted beyond bit 63 are lost
U64Shl7(x) ==
    [k \in 1..U64Limbs |->
        IF k = 1 THEN 0
        ELSE IF k = U64Limbs THEN x[k - 1] % 2
        ELSE x[k - 1]]

\* x | b for a byte b below 0x80
U64OrLow(x, b) == [x EXCEPT ![1] = BitOr(x[1], b)]

\* the number of significant 7-bit groups of x (0 for x = 0)
RECURSIVE U64Groups(_, _)
U64Groups(x, k) == IF k = 0 THEN 0 ELSE IF x[k] # 0 THEN k ELSE U64Groups(x, k - 1)

\* x as a natural, for values that fit three limbs
U64Small(x) == \A k \in 4..U64Limbs : x[k] = 0
U64ToNat(x) == x[1] + 128 * x[2] + 16384 * x[3]

(***************************************************************************)
(* util.rs: the byte source                                                *)
(***************************************************************************)
\* read_byte: one read() of a 1-byte buffer whose count is ignored; at the
\* end of the source read() returns Ok(0) and the buffer keeps its 0.
read_byte(s, p) ==
    IF p <= Len(s) THEN [val |-> s[p], pos |-> p + 1]
    ELSE [val |-> 0, pos |-> p]

(***************************************************************************)
(* writer.rs: vtime_to_vec, write_vtime                                    *)
(***************************************************************************)
RECURSIVE vtime_loop(_, _, _)
vtime_loop(cur, continuation, storage) ==
    LET low      == U64Low7(cur)
        next_cur == U64Shr7(cur)
        to_write == IF continuation THEN BitOr(low, 128) ELSE low
        pushed   == Append(storage, to_write)
    IN  IF next_cur = U64Zero THEN pushed
        ELSE vtime_loop(next_cur, TRUE, pushed)

vtime_to_vec_unreversed(v) == vtime_loop(v, FALSE, <<>>)

vtime_to_vec(v) == Reverse(vtime_loop(v, FALSE, <<>>))

\* write_vtime appends the encoding to the sink and returns its length
write_vtime(v, sink) ==
    LET storage == vtime_to_vec(v)
    IN  [sink |-> sink \o storage, n |-> Len(storage)]

(***************************************************************************)
(* lib.rs, midi.rs, meta.rs: the error values.  A call ends in one of four *)
(* outcomes: "Ok", "Err" (an error value is returned), "Panic", or         *)
(* "NoReturn" (the call loops for ever).                                   *)
(***************************************************************************)
NoErr == [kind |-> "", msg |-> "", byte |-> 0]
InvalidSMFFile(m) == [kind |-> "SMFError::InvalidSMFFile", msg |-> m, byte |-> 0]
IoError(m) == [kind |-> "SMFError::Error", msg |-> m, byte |-> 0]
MidiInvalidStatus(b) == [kind |-> "MidiError::InvalidStatus", msg |-> "", byte |-> b]
MidiOtherErr(m) == [kind |-> "MidiError::OtherErr", msg |-> m, byte |-> 0]
MetaOtherErr(m) == [kind |-> "MetaError::OtherErr", msg |-> m, byte |-> 0]

(***************************************************************************)
(* reader.rs: read_vtime                                                   *)
(***************************************************************************)
VtimeMaxBytes == 9

RECURSIVE read_vtime_loop(_, _, _, _, _)
read_vtime_loop(s, p, acc, i, max) ==
    LET i1 == i + 1 IN
    IF i1 > max
    THEN [outcome |-> "Err", err |-> InvalidSMFFile("Variable length value too long"),
          val |-> acc, pos |-> p]
    ELSE LET b    == read_byte(s, p)
             acc1 == U64OrLow(acc, BitAnd(b.val, 127))
         IN  IF BitAnd(b.val, 128) = 0
             THEN [outcome |-> "Ok", err |-> NoErr, val |-> acc1, pos |-> b.pos]
             ELSE read_vtime_loop(s, b.pos, U64Shl7(acc1), i1, max)

read_vtime_unbounded(s, p) == read_vtime_loop(s, p, U64Zero, 0, Len(s) + 1)

read_vtime_short(s, p) == read_vtime_loop(s, p, U64Zero, 0, VtimeMaxBytes - 1)

read_vtime(s, p) == read_vtime_loop(s, p, U64Zero, 0, VtimeMaxBytes)

(***************************************************************************)
(* midi.rs: Status, data_bytes, the message decoders                       *)
(***************************************************************************)
STATUS_MASK == 240

\* enum Status: the variants and their discriminants
StatusValue ==
    [NoteOff |-> 128, NoteOn |-> 144, PolyphonicAftertouch |-> 160,
     ControlChange |-> 176, ProgramChange |-> 192, ChannelAftertouch |-> 208,
     PitchBend |-> 224, SysExStart |-> 240, MIDITimeCodeQtrFrame |-> 241,
     SongPositionPointer |-> 242, SongSelect |-> 243, TuneRequest |-> 246,
     SysExEnd |-> 247, TimingClock |-> 248, Start |-> 250, Continue |-> 251,
     Stop |-> 252, ActiveSensing |-> 254, SystemReset |-> 255]

\* Status::from_u8 (derived FromPrimitive): the variant with that
\* discriminant, or None
StatusFromU8(b) ==
    IF \E n \in DOMAIN StatusValue : StatusValue[n] = b
    THEN Some(CHOOSE n \in DOMAIN StatusValue : StatusValue[n] = b)
    ELSE None

\* a data_bytes that looks the whole status byte up, without the mask
data_bytes_unmasked(status) ==
    LET stat == StatusFromU8(status) IN
    IF stat = None THEN -3
    ELSE IF stat[1] \in {"NoteOff", "NoteOn", "PolyphonicAftertouch", "ControlChange",
                         "PitchBend", "SongPositionPointer"} THEN 2
    ELSE IF stat[1] = "SysExStart" THEN -2
    ELSE IF stat[1] \in {"ProgramChange", "ChannelAftertouch", "MIDITimeCodeQtrFrame",
                         "SongSelect"} THEN 1
    ELSE 0

\* a data_bytes that takes every channel message for a two-byte one
data_bytes_all_two(status) ==
    LET stat == StatusFromU8(BitAnd(status, STATUS_MASK)) IN
    IF stat = None THEN -3
    ELSE IF stat[1] = "SysExStart" THEN -2
    ELSE 2

\* MidiMessage::data_bytes: the variant is looked up from status & STATUS_MASK
data_bytes(status) ==
    LET stat == StatusFromU8(BitAnd(status, STATUS_MASK)) IN
    IF stat = None THEN -3
    ELSE IF stat[1] \in {"NoteOff", "NoteOn", "PolyphonicAftertouch", "ControlChange",
                         "PitchBend", "SongPositionPointer"} THEN 2
    ELSE IF stat[1] = "SysExStart" THEN -2
    ELSE IF stat[1] \in {"ProgramChange", "ChannelAftertouch", "MIDITimeCodeQtrFrame",
                         "SongSelect"} THEN 1
    ELSE 0

MidiOk(data, p) == [outcome |-> "Ok", err |-> NoErr, data |-> data, pos |-> p]
MidiFail(o, e, data, p) == [outcome |-> o, err |-> e, data |-> data, pos |-> p]

\* the SysEx loop: read and keep bytes up to and including the first 0xF7.
\* At the end of the source read_byte keeps returning 0, so the loop never
\* ends.
RECURSIVE sysex_loop(_, _, _)
sysex_loop(s, p, data) ==
    IF p > Len(s) THEN MidiFail("NoReturn", NoErr, data, p)
    ELSE LET b == read_byte(s, p) IN
         IF b.val # StatusValue.SysExEnd
         THEN sysex_loop(s, b.pos, Append(data, b.val))
         ELSE MidiOk(Append(data, b.val), b.pos)

\* a decoder that leaves the terminating 0xF7 out of a SysEx buffer
next_message_given_status_open_sysex(stat, s, p) ==
    LET n  == data_bytes(stat)
        b1 == read_byte(s, p)
        b2 == read_byte(s, b1.pos)
        sx == sysex_loop(s, p, <<stat>>)
    IN  CASE n = 0 -> MidiOk(<<stat>>, p)
          [] n = 1 -> MidiOk(<<stat, b1.val>>, b1.pos)
          [] n = 2 -> MidiOk(<<stat, b1.val, b2.val>>, b2.pos)
          [] n = -2 -> IF sx.outcome = "Ok"
                       THEN MidiOk(SubSeq(sx.data, 1, Len(sx.data) - 1), sx.pos)
                       ELSE sx
          [] OTHER -> MidiFail("Err", MidiInvalidStatus(stat), <<>>, p)

next_message_given_status(stat, s, p) ==
    LET n  == data_bytes(stat)
        b1 == read_byte(s, p)
        b2 == read_byte(s, b1.pos)
    IN  CASE n = 0 -> MidiOk(<<stat>>, p)
          [] n = 1 -> MidiOk(<<stat, b1.val>>, b1.pos)
          [] n = 2 -> MidiOk(<<stat, b1.val, b2.val>>, b2.pos)
          [] n = -1 -> MidiFail("Err", MidiOtherErr("Don't handle variable sized yet"), <<>>, p)
          [] n = -2 -> sysex_loop(s, p, <<stat>>)
          [] OTHER -> MidiFail("Err", MidiInvalidStatus(stat), <<>>, p)

next_message_running_status(stat, databyte, s, p) ==
    LET n  == data_bytes(stat)
        b1 == read_byte(s, p)
    IN  CASE n = 0 -> MidiFail("Panic", NoErr, <<>>, p)
          [] n = 1 -> MidiOk(<<stat, databyte>>, p)
          [] n = 2 -> MidiOk(<<stat, databyte, b1.val>>, b1.pos)
          [] n = -1 -> MidiFail("Err", MidiOtherErr("Don't handle variable sized yet"), <<>>, p)
          [] n = -2 -> MidiFail("Err",
                            MidiOtherErr("Running status not permitted with meta and sysex event"),
                            <<>>, p)
          [] OTHER -> MidiFail("Err", MidiInvalidStatus(stat), <<>>, p)

next_message(s, p) ==
    LET stat == read_byte(s, p)
    IN  next_message_given_status(stat.val, s, stat.pos)

(***************************************************************************)
(* meta.rs: MetaCommand, MetaEvent::next_event; util.rs: read_amount       *)
(***************************************************************************)
\* enum MetaCommand: the variants and their discriminants; Unknown follows
\* SequencerSpecificEvent = 0x7F and has no discriminant of its own
MetaCommandValue ==
    [SequenceNumber |-> 0, TextEvent |-> 1, CopyrightNotice |-> 2,
     SequenceOrTrackName |-> 3, InstrumentName |-> 4, LyricText |-> 5,
     MarkerText |-> 6, CuePoint |-> 7, MIDIChannelPrefixAssignment |-> 32,
     MIDIPortPrefixAssignment |-> 33, EndOfTrack |-> 47, TempoSetting |-> 81,
     SMPTEOffset |-> 84, TimeSignature |-> 88, KeySignature |-> 89,
     SequencerSpecificEvent |-> 127, Unknown |-> 128]

\* MetaCommand::from_u8 (derived FromPrimitive)
MetaCommandFromU8(b) ==
    IF \E n \in DOMAIN MetaCommandValue : MetaCommandValue[n] = b
    THEN Some(CHOOSE n \in DOMAIN MetaCommandValue : MetaCommandValue[n] = b)
    ELSE None

\* read_amount(reader, dest, amt) with an empty dest: amt bytes of the
\* source, or no return when the source ends first (the Ok(0) arm neither
\* breaks nor advances)
read_amount(s, p, amt) ==
    IF U64Small(amt) /\ p + U64ToNat(amt) - 1 <= Len(s)
    THEN [outcome |-> "Ok", data |-> SubSeq(s, p, p + U64ToNat(amt) - 1),
          pos |-> p + U64ToNat(amt)]
    ELSE [outcome |-> "NoReturn", data |-> <<>>, pos |-> Len(s) + 1]

MetaEvent(command, length, data) ==
    [kind |-> "Meta", command |-> command, length |-> length, data |-> data]

MidiMessage(data) ==
    [kind |-> "Midi", command |-> "", length |-> U64Zero, data |-> data]

MetaFail(o, e, p) ==
    [outcome |-> o, err |-> e, event |-> MetaEvent("Unknown", U64Zero, <<>>), pos |-> p]

\* a meta decoder that refuses command bytes it does not know
meta_next_event_strict(s, p) ==
    LET c == read_byte(s, p)
        l == read_vtime(s, c.pos)
        d == read_amount(s, l.pos, l.val)
    IN  IF MetaCommandFromU8(c.val) = None \/ l.outcome # "Ok" \/ d.outcome # "Ok"
        THEN MetaFail("Err", MetaOtherErr("Invalid meta command"), c.pos)
        ELSE [outcome |-> "Ok", err |-> NoErr,
              event |-> MetaEvent(MetaCommandFromU8(c.val)[1], l.val, d.data), pos |-> d.pos]

\* MetaEvent::next_event
meta_next_event(s, p) ==
    LET c       == read_byte(s, p)
        from    == MetaCommandFromU8(c.val)
        command == IF from = None THEN "Unknown" ELSE from[1]
        l       == read_vtime(s, c.pos)
        d       == read_amount(s, l.pos, l.val)
    IN  IF l.outcome # "Ok"
        THEN MetaFail("Err", MetaOtherErr("Couldn't read time for meta command"), l.pos)
        ELSE IF d.outcome # "Ok"
        THEN MetaFail(d.outcome, NoErr, d.pos)
        ELSE [outcome |-> "Ok", err |-> NoErr,
              event |-> MetaEvent(command, l.val, d.data), pos |-> d.pos]

(***************************************************************************)
(* lib.rs: Event::len, TrackEvent::len                                     *)
(***************************************************************************)
TrackEvent(vtime, event) == [vtime |-> vtime, event |-> event]

event_len(e) ==
    IF e.kind = "Midi" THEN Len(e.data)
    ELSE Len(vtime_to_vec(e.length)) + Len(e.data) + 2

track_event_len(te) == Len(vtime_to_vec(te.vtime)) + event_len(te.event)

(***************************************************************************)
(* reader.rs: next_event                                                   *)
(***************************************************************************)
NoEvent == TrackEvent(U64Zero, MidiMessage(<<>>))

EventResult(o, e, ev, running, start, p) ==
    [outcome |-> o, err |-> e, event |-> ev, was_running |-> running,
     start |-> start, pos |-> p]

next_event(s, p, laststat) ==
    LET time    == read_vtime(s, p)
        stat    == read_byte(s, time.pos)
        running == BitAnd(stat.val, 128) = 0
        meta    == meta_next_event(s, stat.pos)
        msg     == IF running
                   THEN next_message_running_status(laststat, stat.val, s, stat.pos)
                   ELSE next_message_given_status(stat.val, s, stat.pos)
    IN  IF time.outcome # "Ok"
        THEN EventResult("Err", time.err, NoEvent, FALSE, p, time.pos)
        ELSE IF stat.val = 255
        THEN EventResult(meta.outcome, meta.err, TrackEvent(time.val, meta.event),
                         running, p, meta.pos)
        ELSE EventResult(msg.outcome, msg.err, TrackEvent(time.val, MidiMessage(msg.data)),
                         running, p, msg.pos)

(***************************************************************************)
(* reader.rs: parse_track; util.rs: fill_buf, latin1_decode                *)
(***************************************************************************)
\* ISO-8859-1: every byte decodes to the code point of the same number
latin1_decode(bytes) == [k \in 1..Len(bytes) |-> bytes[k]]

\* fill_buf(reader, buf) for a buffer of n bytes
fill_buf(s, p, n) ==
    IF p + n - 1 <= Len(s)
    THEN [outcome |-> "Ok", err |-> NoErr, buf |-> SubSeq(s, p, p + n - 1), pos |-> p + n]
    ELSE [outcome |-> "Err", err |-> IoError("file ends before it should"),
          buf |-> <<>>, pos |-> Len(s) + 1]

MTrk == <<77, 84, 114, 107>>

\* the four bytes of a u32, most significant first
U32Bytes(n) == <<(n \div 16777216) % 256, (n \div 65536) % 256, (n \div 256) % 256, n % 256>>

\* a big-endian u32 below 2^31
BigEndian32(b) == ((b[1] * 256 + b[2]) * 256 + b[3]) * 256 + b[4]

\* the status of the first MIDI event of the list, meta events skipped
RECURSIVE first_status(_)
first_status(events) ==
    IF events = <<>> THEN 0
    ELSE IF Head(events).event.kind = "Midi" THEN Head(events).event.data[1]
    ELSE first_status(Tail(events))

\* a status that outlives the track: with no MIDI event in this track yet,
\* the status of the previous next_event call is used
RECURSIVE last_status_shared(_)
last_status_shared(events) ==
    IF events = <<>> THEN last
    ELSE LET e == events[Len(events)] IN
         IF e.event.kind = "Midi" THEN e.event.data[1]
         ELSE last_status_shared(SubSeq(events, 1, Len(events) - 1))

\* "use status from last midi event, skip meta events"
RECURSIVE last_status(_)
last_status(events) ==
    IF events = <<>> THEN 0
    ELSE LET e == events[Len(events)] IN
         IF e.event.kind = "Midi" THEN e.event.data[1]
         ELSE last_status(SubSeq(events, 1, Len(events) - 1))

Returned(o, e) == [outcome |-> o, err |-> e]

\* the magic and the length field
ParseTrackHeader ==
    /\ pc = "parse_track"
    /\ LET magic  == fill_buf(stream, pos, 4)
           length == fill_buf(stream, magic.pos, 4)
       IN  IF magic.outcome # "Ok"
           THEN /\ pc' = "track_failed"
                /\ result' = Returned("Err", magic.err)
                /\ pos' = magic.pos
                /\ len' = len
           ELSE IF magic.buf # MTrk
           THEN /\ pc' = "track_failed"
                /\ result' = Returned("Err", InvalidSMFFile("Invalid track magic"))
                /\ pos' = magic.pos
                /\ len' = len
           ELSE IF length.outcome # "Ok"
           THEN /\ pc' = "track_failed"
                /\ result' = Returned("Err", length.err)
                /\ pos' = length.pos
                /\ len' = len
           ELSE /\ pc' = "track_loop"
                /\ result' = result
                /\ pos' = length.pos
                /\ len' = BigEndian32(length.buf)
    /\ res' = <<>>
    /\ read_so_far' = 0
    /\ copyright' = None
    /\ name' = None
    /\ UNCHANGED <<fileVars, val, track, stream, last, wrote, ret>>

\* one turn of the loop: next_event, the name and copyright capture, the
\* byte accounting and the two exits
ParseTrackEvent ==
    /\ pc = "track_loop"
    /\ LET l     == last_status(res)
           r     == next_event(stream, pos, l)
           me    == r.event.event
           count == read_so_far + track_event_len(r.event)
                        - (IF r.was_running THEN 1 ELSE 0)
       IN  /\ last' = l
           /\ ret' = r
           /\ pos' = r.pos
           /\ IF r.outcome = "Ok"
              THEN /\ copyright' = IF me.kind = "Meta" /\ me.command = "CopyrightNotice"
                                   THEN Some(latin1_decode(me.data)) ELSE copyright
                   /\ name' = IF me.kind = "Meta" /\ me.command = "SequenceOrTrackName"
                              THEN Some(latin1_decode(me.data)) ELSE name
                   /\ read_so_far' = count
                   /\ res' = Append(res, r.event)
                   /\ IF count = len
                      THEN pc' = "track_done" /\ result' = Returned("Ok", NoErr)
                      ELSE IF count > len
                      THEN /\ pc' = "track_failed"
                           /\ result' = Returned("Err", InvalidSMFFile("Invalid MIDI file"))
                      ELSE pc' = "track_loop" /\ result' = result
              ELSE /\ pc' = "track_failed"
                   /\ result' = Returned(r.outcome, r.err)
                   /\ UNCHANGED <<copyright, name, read_so_far, res>>
    /\ UNCHANGED <<fileVars, val, track, stream, len, wrote>>

(***************************************************************************)
(* reader.rs: parse_header                                                 *)
(***************************************************************************)
RIFF == <<82, 73, 70, 70>>
MThd == <<77, 84, 104, 100>>

\* a 16-bit pattern read as an i16
AsI16(v) == IF v >= 32768 THEN v - 65536 ELSE v

HeaderFail(e, p) ==
    [outcome |-> "Err", err |-> e, format |-> "", tracks |-> 0, division |-> 0, pos |-> p]

\* the format is decided by header[9] alone; the count and the division are
\* the big-endian pairs header[10..11] and header[12..13]
header_fields(header, p) ==
    IF SubSeq(header, 1, 4) # MThd
    THEN HeaderFail(InvalidSMFFile("Invalid header magic"), p)
    ELSE IF header[10] \notin {0, 1, 2}
    THEN HeaderFail(InvalidSMFFile("Invalid format bytes"), p)
    ELSE [outcome |-> "Ok", err |-> NoErr,
          format |-> CASE header[10] = 0 -> "Single"
                       [] header[10] = 1 -> "MultiTrack"
                       [] header[10] = 2 -> "MultiSong",
          tracks |-> BitOr(header[11] * 256, header[12]),
          division |-> AsI16(BitOr(header[13] * 256, header[14])),
          pos |-> p]

parse_header(s, p) ==
    LET first  == fill_buf(s, p, 14)
        skip   == fill_buf(s, first.pos, 6)
        second == fill_buf(s, skip.pos, 14)
    IN  IF first.outcome # "Ok" THEN HeaderFail(first.err, first.pos)
        ELSE IF SubSeq(first.buf, 1, 4) = RIFF
        THEN IF skip.outcome # "Ok" THEN HeaderFail(skip.err, skip.pos)
             ELSE IF second.outcome # "Ok" THEN HeaderFail(second.err, second.pos)
             ELSE header_fields(second.buf, second.pos)
        ELSE header_fields(first.buf, first.pos)

(***************************************************************************)
(* u64 comparison and subtraction                                          *)
(***************************************************************************)
U64Less(a, b) ==
    \E k \in 1..U64Limbs : a[k] < b[k] /\ \A j \in (k + 1)..U64Limbs : a[j] = b[j]

\* a - b modulo 2^64
RECURSIVE sub_limbs(_, _, _, _)
sub_limbs(a, b, k, borrow) ==
    IF k > U64Limbs THEN <<>>
    ELSE LET base == IF k = U64Limbs THEN 2 ELSE 128
             d    == a[k] - b[k] - borrow
         IN  <<(d + 2 * base) % base>> \o sub_limbs(a, b, k + 1, IF d < 0 THEN 1 ELSE 0)

U64WrappingSub(a, b) == sub_limbs(a, b, 1, 0)

(***************************************************************************)
(* writer.rs: the track chunk writer                                       *)
(***************************************************************************)
start_track_header(vec) == vec \o MTrk \o <<0, 0, 0, 0>>

Writing(vec, length, saw_eot) == [vec |-> vec, length |-> length, saw_eot |-> saw_eot]

\* a write_event that takes every meta event for the end of the track
write_event_any_meta(vec, event, length, saw_eot) ==
    IF event.kind = "Midi"
    THEN Writing(vec \o event.data, length + Len(event.data), saw_eot)
    ELSE LET w == write_vtime(event.length, vec \o <<255, MetaCommandValue[event.command]>>)
         IN  Writing(w.sink \o event.data, length + w.n + 2 + Len(event.data), TRUE)

write_event(vec, event, length, saw_eot) ==
    IF event.kind = "Midi"
    THEN Writing(vec \o event.data, length + Len(event.data), saw_eot)
    ELSE LET w == write_vtime(event.length, vec \o <<255, MetaCommandValue[event.command]>>)
         IN  Writing(w.sink \o event.data, length + w.n + 2 + Len(event.data),
                     saw_eot \/ event.command = "EndOfTrack")

\* bytes 4..7 of vec overwritten with length, big-endian
patch_length(vec, length) ==
    [k \in 1..Len(vec) |-> IF k \in 5..8 THEN U32Bytes(length)[k - 4] ELSE vec[k]]

\* a finish_track_write that leaves the synthesized end of track uncounted
finish_track_write_uncounted(vec, length, saw_eot) ==
    IF saw_eot THEN patch_length(vec, length)
    ELSE patch_length(vec \o <<0, 255, MetaCommandValue.EndOfTrack, 0>>, length)

finish_track_write(vec, length, saw_eot) ==
    IF saw_eot THEN patch_length(vec, length)
    ELSE LET d == write_vtime(U64Zero, vec)
             l == write_vtime(U64Zero, d.sink \o <<255, MetaCommandValue.EndOfTrack>>)
         IN  patch_length(l.sink, length + d.n + l.n + 2)

\* the loop of from_smf over the events of one track
RECURSIVE from_smf_events(_, _)
from_smf_events(events, w) ==
    IF events = <<>> THEN w
    ELSE LET t == write_vtime(Head(events).vtime, w.vec)
         IN  from_smf_events(Tail(events),
                 write_event(t.sink, Head(events).event, w.length + t.n, w.saw_eot))

\* the chunk from_smf pushes for one track
from_smf_track(events) ==
    LET w == from_smf_events(events, Writing(start_track_header(<<>>), 0, FALSE))
    IN  finish_track_write(w.vec, w.length, w.saw_eot)

AbsoluteEvent(time, event) == [time |-> time, event |-> event]

\* MetaEvent::sequence_or_track_name
sequence_or_track_name(n) == MetaEvent("SequenceOrTrackName", U64(Len(n)), n)

\* the loop of add_track_with_name: vtime = time - cur_time, cur_time = vtime.
\* A subtraction below zero panics in a build with overflow checks and wraps
\* in a build without.
RECURSIVE add_track_events(_, _, _, _)
add_track_events(events, w, cur_time, overflow_checks) ==
    IF events = <<>> THEN [outcome |-> "Ok", w |-> w]
    ELSE LET ev    == Head(events)
             vtime == U64WrappingSub(ev.time, cur_time)
             t     == write_vtime(vtime, w.vec)
         IN  IF U64Less(ev.time, cur_time) /\ overflow_checks
             THEN [outcome |-> "Panic", w |-> w]
             ELSE add_track_events(Tail(events),
                      write_event(t.sink, ev.event, w.length + t.n, w.saw_eot),
                      vtime, overflow_checks)

add_track_with_name(events, n, overflow_checks) ==
    LET start == Writing(start_track_header(<<>>), 0, FALSE)
        d     == write_vtime(U64Zero, start.vec)
        named == IF n = None THEN start
                 ELSE write_event(d.sink, sequence_or_track_name(n[1]), d.n, FALSE)
        r     == add_track_events(events, named, U64Zero, overflow_checks)
    IN  IF r.outcome = "Ok"
        THEN [outcome |-> "Ok", vec |-> finish_track_write(r.w.vec, r.w.length, r.w.saw_eot)]
        ELSE [outcome |-> r.outcome, vec |-> <<>>]

(***************************************************************************)
(* Values every scenario starts from                                       *)
(***************************************************************************)
NoRet == [outcome |-> "None"]

\* what a writer call left behind: the call and the number of bytes written
NotWritten == [by |-> "", n |-> 0]
Written(by, n) == [by |-> by, n |-> n]

\* no writer, no SMF and an SMFBuilder without tracks
NoWriter == [format |-> 0, ticks |-> 0, tracks |-> <<>>]
NoSmf == [format |-> "", division |-> 0, capacity |-> 0, tracks |-> <<>>]
NoBuilder == [tracks |-> <<>>]

FileIdle ==
    /\ writer = NoWriter
    /\ chunks = <<>>
    /\ smf = NoSmf
    /\ builder = NoBuilder

TrackIdle ==
    /\ track = <<>>
    /\ res = <<>>
    /\ read_so_far = 0
    /\ len = 0
    /\ copyright = None
    /\ name = None
    /\ last = 0

(***************************************************************************)
(* SpecVtime: write_vtime followed by read_vtime, and read_vtime on raw    *)
(* bytes                                                                   *)
(***************************************************************************)
MaxRawCont == 10

\* a value of n groups: top group h, every lower group f
LimbPattern(n, h, f) ==
    [k \in 1..U64Limbs |->
        IF k < n THEN f
        ELSE IF k = n THEN (IF n = U64Limbs THEN 1 ELSE h)
        ELSE 0]

VtimeSamples ==
    {U64(n) : n \in {0, 1, 127, 128, 255, 16383, 16384, 32768, 2097151, 2097152}}
    \cup {LimbPattern(n, h, f) : n \in 1..U64Limbs, h \in {1, 64, 127}, f \in {0, 85, 127}}

\* what follows the encoded value in the source
VtimeTrailing == {<<>>, <<0>>, <<129, 0>>}

\* k bytes with the continuation bit, then nothing or a final byte
RawVtimeStreams ==
    UNION {{c \o t : c \in [1..k -> {128, 255}], t \in {<<>>, <<0>>, <<127>>}} :
              k \in 0..MaxRawCont}

InitVtime ==
    /\ FileIdle
    /\ TrackIdle
    /\ pos = 1
    /\ wrote = NotWritten
    /\ ret = NoRet
    /\ result = NoRet
    /\ \/ pc = "encode" /\ val \in VtimeSamples /\ stream = <<>>
       \/ pc = "raw" /\ val = U64Zero /\ stream \in RawVtimeStreams

\* SMFWriter::write_vtime(val, sink); the source then holds what was written
\* followed by further bytes
WriteVtime ==
    /\ pc = "encode"
    /\ \E t \in VtimeTrailing :
          LET w == write_vtime(val, stream)
          IN  /\ stream' = w.sink \o t
              /\ wrote' = Written("write_vtime", w.n)
    /\ pc' = "decode"
    /\ UNCHANGED <<fileVars, val, track, pos, trackVars, ret, result>>

\* SMFReader::read_vtime(source)
ReadVtime ==
    /\ pc \in {"decode", "raw"}
    /\ LET r == read_vtime(stream, pos)
       IN  /\ ret' = r
           /\ pos' = r.pos
    /\ pc' = IF pc = "decode" THEN "decoded" ELSE "raw_decoded"
    /\ UNCHANGED <<fileVars, val, track, stream, trackVars, wrote, result>>

NextVtime == WriteVtime \/ ReadVtime

SpecVtime == InitVtime /\ [][NextVtime]_vars

(***************************************************************************)
(* Claims on the VLQ codec                                                 *)
(***************************************************************************)
Below2Pow63(v) == v[U64Limbs] = 0

\* C1: for every v < 2^63, read_vtime on the bytes vtime_to_vec(v) produced
\* returns v and consumes exactly the produced bytes.
C1_VlqRoundTrip ==
    (pc = "decoded" /\ Below2Pow63(val)) =>
        /\ ret.outcome = "Ok"
        /\ ret.val = val
        /\ pos = wrote.n + 1

\* a nine-byte encoding followed by further bytes has been read back
C1_Witness ==
    /\ pc = "decoded"
    /\ Below2Pow63(val)
    /\ wrote.n = VtimeMaxBytes
    /\ Len(stream) > wrote.n
    /\ ret.val = val

\* the groups of v, most significant first, as the claim describes them
GroupCount(v) == IF U64Groups(v, U64Limbs) = 0 THEN 1 ELSE U64Groups(v, U64Limbs)

MinimalBigEndian(v, e) ==
    /\ Len(e) = GroupCount(v)
    /\ \A k \in 1..Len(e) :
          /\ e[k] % 128 = v[Len(e) - k + 1]
          /\ (e[k] >= 128) <=> (k < Len(e))
    /\ e[1] # 128

\* C2: vtime_to_vec(v) is the shortest big-endian sequence of 7-bit groups
\* with the high bit on every byte but the last, never starts with 0x80,
\* maps the listed values to the listed bytes, and write_vtime returns the
\* number of bytes written.
C2_VlqMinimalBigEndian ==
    (pc = "decode") =>
        LET e == Take(stream, wrote.n) IN
        /\ MinimalBigEndian(val, e)
        /\ \E t \in VtimeTrailing : stream = e \o t
        /\ val = U64(0) => e = <<0>>
        /\ val = U64(127) => e = <<127>>
        /\ val = U64(128) => e = <<129, 0>>
        /\ val = U64(255) => e = <<129, 127>>
        /\ val = U64(16383) => e = <<255, 127>>
        /\ val = U64(16384) => e = <<129, 128, 0>>
        /\ val = U64(32768) => e = <<130, 128, 0>>

\* 32768 has been written as three bytes
C2_Witness ==
    /\ pc = "decode"
    /\ val = U64(32768)
    /\ wrote.n = 3
    /\ Take(stream, 3) = <<130, 128, 0>>

\* C3: read_vtime on an input whose first ten bytes all carry the
\* continuation bit returns the too-long error after at most nine reads.
AllContinuation(s, n) == Len(s) >= n /\ \A k \in 1..n : s[k] >= 128

C3_VlqTooLongRejected ==
    (pc = "raw_decoded" /\ AllContinuation(stream, VtimeMaxBytes + 1)) =>
        /\ ret.outcome = "Err"
        /\ ret.err = InvalidSMFFile("Variable length value too long")
        /\ pos <= VtimeMaxBytes + 1

\* ten continuation bytes have been rejected
C3_Witness ==
    /\ pc = "raw_decoded"
    /\ Len(stream) = VtimeMaxBytes + 1
    /\ AllContinuation(stream, Len(stream))
    /\ ret.outcome = "Err"

(***************************************************************************)
(* SpecParse: parse_track on a track chunk read from a file                *)
(***************************************************************************)
MaxWireEvents == 3

\* one event as it stands in a file, its delta-time first
WireEvents ==
    { <<0, 144, 69, 100>>,         \* Note-On, channel 0
      <<0, 69, 100>>,              \* two data bytes, status omitted
      <<10, 193, 5>>,              \* Program-Change, channel 1
      <<0, 7>>,                    \* one data byte, status omitted
      <<0, 255, 47, 0>>,           \* End-Of-Track
      <<0, 255, 16, 1, 170>>,      \* meta command 0x10, one payload byte
      <<0, 255, 3, 2, 97, 98>>,    \* track name "ab"
      <<0, 240, 1, 247>>,          \* SysEx
      <<0, 248>> }                 \* Timing-Clock

RECURSIVE Concat(_)
Concat(ss) == IF ss = <<>> THEN <<>> ELSE Head(ss) \o Concat(Tail(ss))

WireBodies == UNION {{Concat(f) : f \in [1..n -> WireEvents]} : n \in 0..MaxWireEvents}

\* chunks whose length field is the body's length, one less, or one more,
\* and files that end early
WireChunks ==
    {MTrk \o U32Bytes(Len(b) + d) \o b : b \in WireBodies, d \in {0, 1}}
    \cup {MTrk \o U32Bytes(Len(b) - 1) \o b : b \in WireBodies \ {<<>>}}
    \cup {<<>>, <<77, 84>>, <<77, 84, 104, 100, 0, 0, 0, 6>>, MTrk \o <<0, 0>>,
          MTrk \o U32Bytes(4) \o <<0, 144, 69>>}

InitParse ==
    /\ FileIdle
    /\ TrackIdle
    /\ pc = "parse_track"
    /\ val = U64Zero
    /\ stream \in WireChunks
    /\ pos = 1
    /\ wrote = NotWritten
    /\ ret = NoRet
    /\ result = NoRet

NextParse == ParseTrackHeader \/ ParseTrackEvent

SpecParse == InitParse /\ [][NextParse]_vars

(***************************************************************************)
(* Claims on the track parser                                              *)
(***************************************************************************)
Stepped == pc \in {"track_loop", "track_done", "track_failed"} /\ ret # NoRet

IsMidi(te) == te.event.kind = "Midi"

\* the status of the MIDI message with the greatest index, 0 without one
MostRecentMidiStatus(events) ==
    IF \E i \in 1..Len(events) : IsMidi(events[i])
    THEN LET i == CHOOSE i \in 1..Len(events) :
                      /\ IsMidi(events[i])
                      /\ \A j \in (i + 1)..Len(events) : ~IsMidi(events[j])
         IN  events[i].event.data[1]
    ELSE 0

InsertAt(s, q, b) == SubSeq(s, 1, q - 1) \o <<b>> \o SubSeq(s, q, Len(s))

\* C6: an event that omits its status byte is decoded with the status of the
\* most recent MIDI message of the track (meta events skipped, messages
\* decoded by running status included) and equals the event decoded from
\* the same stream with that status byte written out (the byte standing in
\* for the status being a byte of the stream).
C6_RunningStatusReconstruction ==
    (Stepped /\ ret.was_running) =>
        LET earlier  == IF ret.outcome = "Ok" THEN SubSeq(res, 1, Len(res) - 1) ELSE res
            q        == read_vtime(stream, ret.start).pos
            explicit == next_event(InsertAt(stream, q, last), ret.start, 0)
        IN  /\ last = MostRecentMidiStatus(earlier)
            /\ last \in 128..239 => ret.outcome = "Ok"
            /\ ret.outcome = "Ok" =>
                 /\ IsMidi(ret.event)
                 /\ ret.event.event.data[1] = last
                 /\ res[Len(res)] = ret.event
                 /\ q <= Len(stream) =>
                      /\ explicit.outcome = "Ok"
                      /\ explicit.event = ret.event
                      /\ explicit.pos = ret.pos + 1

\* a Note-On, then two events in a row that omit the status byte
C6_Witness ==
    /\ Stepped
    /\ ret.was_running
    /\ ret.outcome = "Ok"
    /\ Len(res) = 3
    /\ \A i \in 1..3 : res[i].event.data = <<144, 69, 100>>
    /\ SubSeq(stream, 9, 18) = <<0, 144, 69, 100, 0, 69, 100, 0, 69, 100>>

KnownMetaCommandBytes == (0..7) \cup {32, 33, 47, 81, 84, 88, 89, 127}

\* C7: a meta event whose command byte is outside the known set, followed
\* by a VLQ length n and n payload bytes, decodes to command Unknown with
\* length n and the payload as data, and the track parse does not fail on it.
C7_UnknownMetaTolerated ==
    Stepped =>
        LET d == read_vtime(stream, ret.start)
            c == d.pos + 1
            l == read_vtime(stream, c + 1)
            n == U64ToNat(l.val)
        IN  ( /\ d.outcome = "Ok"
              /\ c <= Len(stream)
              /\ stream[d.pos] = 255
              /\ stream[c] \notin KnownMetaCommandBytes
              /\ l.outcome = "Ok"
              /\ l.pos > c + 1
              /\ U64Small(l.val)
              /\ l.pos + n - 1 <= Len(stream) ) =>
            /\ ret.outcome = "Ok"
            /\ ret.event.event = MetaEvent("Unknown", l.val, SubSeq(stream, l.pos, l.pos + n - 1))
            /\ res[Len(res)] = ret.event
            /\ pc = "track_failed" => read_so_far > len

\* the meta event 0xFF 0x10 0x01 0xAA has been decoded inside a track
C7_Witness ==
    /\ Stepped
    /\ ret.outcome = "Ok"
    /\ SubSeq(stream, ret.start, ret.pos - 1) = <<0, 255, 16, 1, 170>>
    /\ ret.event.event.command = "Unknown"
    /\ ret.event.event.data = <<170>>
    /\ pc = "track_done"

\* the chunk's magic and length field have been read
HeaderRead == pc \in {"track_loop", "track_done"} \/ (pc = "track_failed" /\ ret # NoRet)

\* C14: for a chunk of declared length L (L = 0 included, for which no event
\* is read and the track has no events) parse_track stops exactly when the
\* consumed byte count equals L and returns the events decoded so far; an
\* event that takes the count past L fails the parse with an invalid-file
\* error.
C14_TrackLoopTermination ==
    /\ (HeaderRead /\ len = 0) => (ret = NoRet /\ res = <<>> /\ pc # "track_failed")
    /\ (pc = "track_loop" /\ len > 0) => read_so_far < len
    /\ pc = "track_done" =>
           /\ read_so_far = len
           /\ result.outcome = "Ok"
    /\ (pc = "track_failed" /\ ret # NoRet /\ ret.outcome = "Ok") =>
           /\ read_so_far > len
           /\ result = Returned("Err", InvalidSMFFile("Invalid MIDI file"))

\* C19: when the source ends before the declared length of a track has been
\* consumed, parse_track fails with an I/O error; it never returns a track
\* holding events or bytes that were not in the input.
C19_ExhaustedSourceIsError ==
    (pc \in {"track_done", "track_failed"} /\ HeaderRead /\ Len(stream) - 8 < len) =>
        /\ result.outcome = "Err"
        /\ result.err.kind = "SMFError::Error"

C29_ParsingTerminates ==
    /\ ret # NoRet => ret.outcome \in {"Ok", "Err"}
    /\ result # NoRet => result.outcome \in {"Ok", "Err"}

(***************************************************************************)
(* SpecCapture: parse_track on chunks that hold name and copyright events  *)
(***************************************************************************)
MaxCaptureEvents == 3

CaptureEvents ==
    { <<0, 255, 3, 2, 97, 98>>,    \* track name "ab"
      <<0, 255, 3, 1, 99>>,        \* track name "c"
      <<0, 255, 2, 1, 67>>,        \* copyright "C"
      <<0, 255, 2, 2, 100, 101>>,  \* copyright "de"
      <<0, 255, 47, 0>>,           \* End-Of-Track
      <<0, 144, 69, 100>>,         \* Note-On, channel 0
      <<128, 0, 144, 69, 100>>,    \* Note-On, delta-time 0 written in two bytes
      <<0, 255, 2, 128, 1, 67>> }  \* copyright "C", length 1 written in two bytes

CaptureChunks ==
    {MTrk \o U32Bytes(Len(b)) \o b :
        b \in UNION {{Concat(f) : f \in [1..n -> CaptureEvents]} : n \in 0..MaxCaptureEvents}}

InitCapture ==
    /\ FileIdle
    /\ TrackIdle
    /\ pc = "parse_track"
    /\ val = U64Zero
    /\ stream \in CaptureChunks
    /\ pos = 1
    /\ wrote = NotWritten
    /\ ret = NoRet
    /\ result = NoRet

SpecCapture == InitCapture /\ [][NextParse]_vars

\* the decoded text of the first meta event of the given command, if any
FirstText(events, command) ==
    LET Is(i) == events[i].event.kind = "Meta" /\ events[i].event.command = command
    IN  IF \E i \in 1..Len(events) : Is(i)
        THEN LET i == CHOOSE i \in 1..Len(events) : Is(i) /\ \A j \in 1..(i - 1) : ~Is(j)
             IN  Some(latin1_decode(events[i].event.data))
        ELSE None

\* C15: after parse_track the copyright is the text of the first
\* CopyrightNotice event of the track and the name is the text of the first
\* SequenceOrTrackName event; later events of the same kind do not overwrite
\* them, and both are None when there is no such event.
C15_FirstOccurrenceWins ==
    pc = "track_done" =>
        /\ copyright = FirstText(res, "CopyrightNotice")
        /\ name = FirstText(res, "SequenceOrTrackName")

\* C25: after every event decoded in parse_track, read_so_far equals the
\* number of bytes taken from the reader since the chunk's length field,
\* for every accepted encoding of the delta-time and of the meta length,
\* also those with leading 0x80 bytes.
C25_ExactByteAccounting ==
    (HeaderRead /\ ret # NoRet /\ ret.outcome = "Ok") => read_so_far = pos - 9

(***************************************************************************)
(* SpecTrack: a track written by SMFWriter and parsed back by parse_track  *)
(***************************************************************************)
MaxTrackEvents == 3

EndOfTrack == MetaEvent("EndOfTrack", U64Zero, <<>>)
NoteOn69 == MidiMessage(<<144, 69, 100>>)
NoteOff69 == MidiMessage(<<128, 69, 100>>)

TwoPow63 == [k \in 1..U64Limbs |-> IF k = U64Limbs THEN 1 ELSE 0]
TwoPow63Less1 == [k \in 1..U64Limbs |-> IF k = U64Limbs THEN 0 ELSE 127]

SampleTrackEvents ==
    { TrackEvent(U64(0), NoteOn69),
      TrackEvent(U64(10), NoteOff69),
      TrackEvent(U64(200), MidiMessage(<<193, 5>>)),
      TrackEvent(TwoPow63Less1, MidiMessage(<<227, 0, 64>>)),
      TrackEvent(TwoPow63, NoteOn69),
      TrackEvent(U64(0), EndOfTrack),
      TrackEvent(U64(0), MetaEvent("Unknown", U64(1), <<170>>)),
      TrackEvent(U64(5), sequence_or_track_name(<<97, 98>>)),
      TrackEvent(U64(0), MetaEvent("TextEvent", U64(2), <<97>>)) }

SampleAbsoluteEvents ==
    {AbsoluteEvent(U64(t), e) : t \in {0, 3, 5}, e \in {NoteOn69, EndOfTrack}}

SeqsUpTo(S, n) == UNION {[1..k -> S] : k \in 0..n}

InitTrack ==
    /\ FileIdle
    /\ res = <<>>
    /\ read_so_far = 0
    /\ len = 0
    /\ copyright = None
    /\ name = None
    /\ last = 0
    /\ val = U64Zero
    /\ stream = <<>>
    /\ pos = 1
    /\ wrote = NotWritten
    /\ ret = NoRet
    /\ result = NoRet
    /\ \/ pc = "from_smf" /\ track \in SeqsUpTo(SampleTrackEvents, MaxTrackEvents)
       \/ pc = "add_track" /\ track \in SeqsUpTo(SampleAbsoluteEvents, MaxTrackEvents)

\* SMFWriter::from_smf on an SMF holding the one track
FromSmf ==
    /\ pc = "from_smf"
    /\ stream' = from_smf_track(track)
    /\ wrote' = Written("from_smf", Len(stream'))
    /\ pc' = "parse_track"
    /\ UNCHANGED <<fileVars, val, track, pos, trackVars, ret, result>>

\* SMFWriter::add_track_with_name(track.iter(), n)
AddTrackWithName ==
    /\ pc = "add_track"
    /\ \E n \in {None, Some(<<97, 98>>)}, overflow_checks \in BOOLEAN :
          LET w == add_track_with_name(track, n, overflow_checks)
          IN  /\ stream' = w.vec
              /\ wrote' = Written("add_track_with_name", Len(w.vec))
              /\ pc' = IF w.outcome = "Ok" THEN "parse_track" ELSE "writer_panicked"
    /\ UNCHANGED <<fileVars, val, track, pos, trackVars, ret, result>>

NextTrack == FromSmf \/ AddTrackWithName \/ ParseTrackHeader \/ ParseTrackEvent

SpecTrack == InitTrack /\ [][NextTrack]_vars

(***************************************************************************)
(* Claims on the track writer                                              *)
(***************************************************************************)
\* the data bytes a channel voice status calls for
VoiceDataBytes(status) == IF status \div 16 \in {12, 13} THEN 1 ELSE 2

\* channel voice messages with the right number of data bytes, each below
\* 0x80, and meta events whose length is the length of their payload
RoundTripEvent(te) ==
    IF te.event.kind = "Midi"
    THEN /\ Len(te.event.data) >= 1
         /\ te.event.data[1] \in 128..239
         /\ Len(te.event.data) = 1 + VoiceDataBytes(te.event.data[1])
         /\ \A k \in 2..Len(te.event.data) : te.event.data[k] < 128
    ELSE te.event.length = U64(Len(te.event.data))

HasEndOfTrack(events) ==
    \E i \in 1..Len(events) :
        events[i].event.kind = "Meta" /\ events[i].event.command = "EndOfTrack"

WithEndOfTrack(events) ==
    IF HasEndOfTrack(events) THEN events
    ELSE Append(events, TrackEvent(U64Zero, EndOfTrack))

ParsedBack ==
    /\ pc = "track_done"
    /\ result.outcome = "Ok"
    /\ res = WithEndOfTrack(track)
    /\ pos = Len(stream) + 1

Example2 == <<TrackEvent(U64(0), NoteOn69), TrackEvent(U64(10), NoteOff69)>>

\* C4 as stated: every track of channel voice messages and well-formed meta
\* events written by from_smf parses back to the same list, with one
\* End-Of-Track appended when it held none.
C4_TrackRoundTripAnyDelta ==
    ( /\ wrote.by = "from_smf"
      /\ pc \in {"track_done", "track_failed"}
      /\ \A i \in 1..Len(track) : RoundTripEvent(track[i]) ) =>
        ParsedBack

\* C4, amended: the same for tracks whose delta-times are all below 2^63;
\* the two-note example reads back as three events without name or copyright.
C4_TrackRoundTrip ==
    ( /\ wrote.by = "from_smf"
      /\ pc \in {"track_done", "track_failed"}
      /\ \A i \in 1..Len(track) : RoundTripEvent(track[i]) /\ Below2Pow63(track[i].vtime) ) =>
        /\ ParsedBack
        /\ track = Example2 => Len(res) = 3 /\ copyright = None /\ name = None

\* the two-note example has been written and parsed back
C4_Witness ==
    /\ wrote.by = "from_smf"
    /\ pc = "track_done"
    /\ track = Example2
    /\ Len(res) = 3
    /\ res[3] = TrackEvent(U64Zero, EndOfTrack)

\* C5: in every chunk the writer builds, the big-endian length field at
\* bytes 4..7 is the number of bytes that follow it, the bytes of a
\* synthesized End-Of-Track included.
C5_TrackLengthField ==
    (wrote.by \in {"from_smf", "add_track_with_name"} /\ pc # "writer_panicked") =>
        /\ Len(stream) >= 8
        /\ SubSeq(stream, 1, 4) = MTrk
        /\ BigEndian32(SubSeq(stream, 5, 8)) = Len(stream) - 8
        /\ ~HasEndOfTrack(track) =>
              SubSeq(stream, Len(stream) - 3, Len(stream)) = <<0, 255, 47, 0>>

\* add_track_with_name has built a chunk that ends in a synthesized
\* End-Of-Track
C5_Witness ==
    /\ wrote.by = "add_track_with_name"
    /\ pc = "parse_track"
    /\ Len(track) = 2
    /\ ~HasEndOfTrack(track)
    /\ BigEndian32(SubSeq(stream, 5, 8)) = 12

NonDecreasing(events) ==
    \A k \in 2..Len(events) : ~U64Less(events[k].time, events[k - 1].time)

\* the list with every time replaced by its distance to the time before it
Deltas(events) ==
    [k \in 1..Len(events) |->
        TrackEvent(U64(U64ToNat(events[k].time)
                         - (IF k = 1 THEN 0 ELSE U64ToNat(events[k - 1].time))),
                   events[k].event)]

\* C27: for AbsoluteEvents with non-decreasing times t1 <= ... <= tn,
\* add_track / add_track_with_name without a name emit the k-th event with
\* delta-time tk - t(k-1) (t0 = 0), so the first k deltas sum to tk, and the
\* subtraction never underflows.
C27_DeltaDerivation ==
    (wrote.by = "add_track_with_name" /\ NonDecreasing(track)) =>
        /\ pc # "writer_panicked"
        /\ SubSeq(stream, 9, 11) # <<0, 255, 3>> => stream = from_smf_track(Deltas(track))

\* C26: for every track chunk produced by the writer, from any event list,
\* the last event of the chunk is an EndOfTrack meta event (0xFF 0x2F 0x00),
\* also when the list holds an EndOfTrack event that is not its last event.
C26_TrackTerminated ==
    (wrote.by \in {"from_smf", "add_track_with_name"} /\ pc # "writer_panicked") =>
        /\ Len(stream) >= 11
        /\ SubSeq(stream, Len(stream) - 2, Len(stream)) = <<255, 47, 0>>


(***************************************************************************)
(* SpecEvent: the message and meta event decoders called on a source       *)
(***************************************************************************)
MaxSourceBytes == 3

\* the status bytes handed to the decoders
StatusBytes == (128..255) \cup {0, 69}

SourceStreams == SeqsUpTo({0, 1, 16, 247}, MaxSourceBytes)

InitEvent ==
    /\ FileIdle
    /\ track = <<>>
    /\ res = <<>>
    /\ read_so_far = 0
    /\ len = 0
    /\ copyright = None
    /\ name = None
    /\ val = U64Zero
    /\ pc = "event"
    /\ last \in StatusBytes
    /\ stream \in SourceStreams
    /\ pos = 1
    /\ wrote = NotWritten
    /\ ret = NoRet
    /\ result = NoRet

\* MidiMessage::next_message_given_status(last, source)
NextMessageGivenStatus ==
    /\ pc = "event"
    /\ ret' = next_message_given_status(last, stream, pos)
    /\ pos' = ret'.pos
    /\ pc' = "given_status_done"
    /\ UNCHANGED <<fileVars, val, track, stream, trackVars, wrote, result>>

\* MidiMessage::next_message(source): the status is the first byte read
NextMessage ==
    /\ pc = "event"
    /\ last = 0
    /\ ret' = next_message(stream, pos)
    /\ pos' = ret'.pos
    /\ pc' = "next_message_done"
    /\ UNCHANGED <<fileVars, val, track, stream, trackVars, wrote, result>>

\* MetaEvent::next_event(source), called once 0xFF has been read
MetaNextEvent ==
    /\ pc = "event"
    /\ last = 255
    /\ ret' = meta_next_event(stream, pos)
    /\ pos' = ret'.pos
    /\ pc' = "meta_done"
    /\ UNCHANGED <<fileVars, val, track, stream, trackVars, wrote, result>>

\* SMFWriter::write_event on the meta event that was read, into an empty Vec
WriteEvent ==
    /\ pc = "meta_done"
    /\ ret.outcome = "Ok"
    /\ LET w == write_event(<<>>, ret.event, 0, FALSE)
       IN  wrote' = [by |-> "write_event", n |-> w.length, vec |-> w.vec]
    /\ pc' = "meta_written"
    /\ UNCHANGED <<fileVars, val, track, stream, pos, trackVars, ret, result>>

NextEventDecoders == NextMessageGivenStatus \/ NextMessage \/ MetaNextEvent \/ WriteEvent

SpecEvent == InitEvent /\ [][NextEventDecoders]_vars

(***************************************************************************)
(* Claims on the message decoder                                           *)
(***************************************************************************)
Min(a, b) == IF a < b THEN a ELSE b

\* the decoder took exactly k data bytes and returned the status followed
\* by them (at the end of the source a read yields 0 and takes nothing)
ReadExactly(k) ==
    /\ ret.outcome = "Ok"
    /\ Len(ret.data) = 1 + k
    /\ ret.data[1] = last
    /\ pos = 1 + Min(k, Len(stream))
    /\ Len(stream) >= k => ret.data = <<last>> \o SubSeq(stream, 1, k)

\* C9: for a status in 0x80..0xEF, next_message_given_status reads exactly
\* two bytes for NoteOff, NoteOn, PolyphonicAftertouch, ControlChange and
\* PitchBend and exactly one for ProgramChange and ChannelAftertouch, and
\* returns the status followed by those bytes.
C9_ChannelDataBytes ==
    (pc = "given_status_done" /\ last \in 128..239) =>
        /\ last \div 16 \in {8, 9, 10, 11, 14} => ReadExactly(2)
        /\ last \div 16 \in {12, 13} => ReadExactly(1)

\* a Program-Change on channel 15 took one byte of a three-byte source
C9_Witness ==
    /\ pc = "given_status_done"
    /\ last = 207
    /\ stream = <<16, 1, 247>>
    /\ ret.data = <<207, 16>>
    /\ pos = 2

\* C10: next_message_given_status reads exactly two data bytes for 0xF2,
\* one for 0xF1 and 0xF3, and none for 0xF6, 0xF7, 0xF8, 0xFA, 0xFB, 0xFC,
\* 0xFE and 0xFF; the buffer has length one plus that count.
C10_SystemDataBytes ==
    (pc = "given_status_done") =>
        /\ last = 242 => ReadExactly(2)
        /\ last \in {241, 243} => ReadExactly(1)
        /\ last \in {246, 247, 248, 250, 251, 252, 254, 255} => ReadExactly(0)

\* the index of the first 0xF7 of the source, 0 when there is none
FirstSysExEnd ==
    IF \E k \in 1..Len(stream) : stream[k] = 247
    THEN CHOOSE k \in 1..Len(stream) :
             /\ stream[k] = 247
             /\ \A j \in 1..(k - 1) : stream[j] # 247
    ELSE 0

\* C11: for status 0xF0 and a source that holds a 0xF7,
\* next_message_given_status reads up to and including the first 0xF7 and
\* returns 0xF0 followed by those bytes; nothing after the 0xF7 is consumed.
C11_SysExDecoding ==
    (pc = "given_status_done" /\ last = 240 /\ FirstSysExEnd > 0) =>
        /\ ret.outcome = "Ok"
        /\ ret.data = <<240>> \o SubSeq(stream, 1, FirstSysExEnd)
        /\ pos = FirstSysExEnd + 1

\* a SysEx of two bytes taken from a three-byte source
C11_Witness ==
    /\ pc = "given_status_done"
    /\ last = 240
    /\ stream = <<16, 247, 1>>
    /\ ret.data = <<240, 16, 247>>
    /\ pos = 3

\* C12: on a status that is not a known message kind (0xF4, 0xF5, 0xF9,
\* 0xFD, or any byte below 0x80) next_message_given_status and next_message
\* fail with InvalidStatus carrying that byte and return no message.
C12_UnrecognizedStatusRejected ==
    /\ (pc = "given_status_done" /\ last \in {244, 245, 249, 253} \cup (0..127)) =>
           /\ ret.outcome = "Err"
           /\ ret.err = MidiInvalidStatus(last)
           /\ ret.data = <<>>
    /\ (pc = "next_message_done" /\ stream # <<>> /\ stream[1] < 128) =>
           /\ ret.outcome = "Err"
           /\ ret.err = MidiInvalidStatus(stream[1])
           /\ ret.data = <<>>

\* C13: MetaEvent::next_event reads a command byte, a VLQ length n and n
\* payload bytes, so on success length = n = data.len(); when the source
\* ends before n payload bytes the call returns an I/O-derived error.
C13_MetaPayloadRead ==
    pc = "meta_done" =>
        LET c == read_byte(stream, 1)
            n == read_vtime(stream, c.pos)
        IN
        \/ /\ ret.outcome = "Ok"
           /\ ret.event.length = n.val
           /\ U64Small(n.val)
           /\ Len(ret.event.data) = U64ToNat(n.val)
           /\ ret.event.data = SubSeq(stream, n.pos, n.pos + U64ToNat(n.val) - 1)
        \/ ret.outcome = "Err"

\* C30: for every command byte b in 0x00..0x7F, assigned or not, a meta
\* event read with command byte b and then written by the writer is emitted
\* as 0xFF, b, VLQ(length), payload: byte for byte the event that was read
\* (for a minimally encoded length).
C30_MetaCommandSurvives ==
    (pc = "meta_written" /\ ret.pos >= 3 /\ stream[1] <= 127) =>
        wrote.vec = <<255>> \o SubSeq(stream, 1, ret.pos - 1)


(***************************************************************************)
(* SpecHeader: parse_header on the first bytes of a file                   *)
(***************************************************************************)
\* the 14 header bytes, with every format pair, count and division tried
SampleHeaders ==
    {magic \o <<0, 0, 0, 6>> \o <<fhi, flo>> \o n \o d :
        magic \in {MThd, MTrk},
        fhi \in {0, 1}, flo \in {0, 1, 2, 3},
        n \in {<<0, 0>>, <<0, 1>>, <<1, 2>>},
        d \in {<<0, 96>>, <<255, 128>>, <<231, 40>>}}

\* "RIFF", a size, "RMID", "data", a size
RiffWrapper == RIFF \o <<0, 0, 0, 0>> \o <<82, 77, 73, 68>> \o <<100, 97, 116, 97>> \o <<0, 0, 0, 0>>

\* "RIFF", a size, "RMID", with the MThd chunk straight behind
RiffShort == RIFF \o <<0, 0, 0, 26>> \o <<82, 77, 73, 68>>

\* the wrapper with a four-byte chunk "pad " in front of the data chunk
RiffLong ==
    RIFF \o <<0, 0, 0, 0>> \o <<82, 77, 73, 68>> \o <<112, 97, 100, 32>> \o <<0, 0, 0, 0>>
         \o <<100, 97, 116, 97>> \o <<0, 0, 0, 0>>

InitHeader ==
    /\ FileIdle
    /\ TrackIdle
    /\ val = U64Zero
    /\ pc = "parse_header"
    /\ \E h \in SampleHeaders :
          stream \in {h, RiffWrapper \o h, SubSeq(h, 1, 13), RiffWrapper \o SubSeq(h, 1, 9),
                      RiffShort \o h, RiffLong \o h}
    /\ pos = 1
    /\ wrote = NotWritten
    /\ ret = NoRet
    /\ result = NoRet

\* SMFReader::parse_header(source)
ParseHeader ==
    /\ pc = "parse_header"
    /\ result' = parse_header(stream, pos)
    /\ pos' = result'.pos
    /\ pc' = "header_done"
    /\ UNCHANGED <<fileVars, val, track, stream, trackVars, wrote, ret>>

NextHeader == ParseHeader

SpecHeader == InitHeader /\ [][NextHeader]_vars

(***************************************************************************)
(* Claims on the header parser                                             *)
(***************************************************************************)
\* where the MThd chunk starts: behind the RIFF wrapper when there is one
HeaderAt == IF Len(stream) >= 4 /\ SubSeq(stream, 1, 4) = RIFF THEN 21 ELSE 1

HeaderBytes == SubSeq(stream, HeaderAt, HeaderAt + 13)

\* C8: the 16-bit big-endian format field at header bytes 8..9 maps 0, 1, 2
\* to Single, MultiTrack, MultiSong, and every other value of the field
\* fails with the invalid-format error and returns no SMF.
C8_FormatField ==
    ( /\ pc = "header_done"
      /\ Len(stream) >= HeaderAt + 13
      /\ SubSeq(HeaderBytes, 1, 4) = MThd ) =>
        LET format == HeaderBytes[9] * 256 + HeaderBytes[10] IN
        /\ format = 0 => result.outcome = "Ok" /\ result.format = "Single"
        /\ format = 1 => result.outcome = "Ok" /\ result.format = "MultiTrack"
        /\ format = 2 => result.outcome = "Ok" /\ result.format = "MultiSong"
        /\ format \notin {0, 1, 2} =>
              /\ result.outcome = "Err"
              /\ result.err = InvalidSMFFile("Invalid format bytes")

\* where the first "MThd" behind "RIFF" and its size starts, 0 without one
FirstMThd ==
    LET At(k) == k + 3 <= Len(stream) /\ SubSeq(stream, k, k + 3) = MThd IN
    IF \E k \in 9..Len(stream) : At(k)
    THEN CHOOSE k \in 9..Len(stream) : At(k) /\ \A j \in 9..(k - 1) : ~At(j)
    ELSE 0

\* C17: an input that starts with "RIFF", a 4-byte size and any number of
\* further bytes before the "MThd" chunk parses to the same SMF as the input
\* that starts at "MThd"; an input that starts with neither "RIFF" nor
\* "MThd" fails with the invalid-header-magic error.
C17_RiffWrapperSkipped ==
    pc = "header_done" =>
        /\ (Len(stream) >= 8 /\ SubSeq(stream, 1, 4) = RIFF /\ FirstMThd > 0) =>
               LET bare == parse_header(SubSeq(stream, FirstMThd, Len(stream)), 1) IN
               /\ result.outcome = bare.outcome
               /\ result.err = bare.err
               /\ result.format = bare.format
               /\ result.tracks = bare.tracks
               /\ result.division = bare.division
        /\ (Len(stream) >= 14 /\ SubSeq(stream, 1, 4) \notin {RIFF, MThd}) =>
               /\ result.outcome = "Err"
               /\ result.err = InvalidSMFFile("Invalid header magic")

(***************************************************************************)
(* lib.rs: SMF, Track; writer.rs: the SMFWriter, write_header, write_all   *)
(***************************************************************************)
\* A Vec of tracks is a sequence of runs: an element and the number of times
\* it stands in the Vec in a row.  A Vec of 65536 tracks is then one run.
Run(item, times) == [item |-> item, times |-> times]

\* Vec::len
RECURSIVE VecLen(_)
VecLen(runs) == IF runs = <<>> THEN 0 ELSE Head(runs).times + VecLen(Tail(runs))

\* the number of bytes of a Vec<Vec<u8>>
RECURSIVE VecBytes(_)
VecBytes(runs) ==
    IF runs = <<>> THEN 0
    ELSE Head(runs).times * Len(Head(runs).item) + VecBytes(Tail(runs))

\* enum SMFFormat and its discriminants
SMFFormatValue == [Single |-> 0, MultiTrack |-> 1, MultiSong |-> 2]

Track(c, n, events) == [copyright |-> c, name |-> n, events |-> events]

SMF(format, tracks, division) ==
    [format |-> format, division |-> division, capacity |-> VecLen(tracks), tracks |-> tracks]

new_with_division_and_format(format, ticks) ==
    [format |-> SMFFormatValue[format], ticks |-> ticks, tracks |-> <<>>]

\* SMFWriter::from_smf: one chunk is pushed for every track of the SMF
from_smf(s) ==
    [new_with_division_and_format(s.format, s.division) EXCEPT
        !.tracks = [i \in 1..Len(s.tracks) |->
                       Run(from_smf_track(s.tracks[i].item.events), s.tracks[i].times)]]

\* `as u16`
AsU16(n) == n % 65536

\* the two bytes of a 16-bit pattern, most significant first
U16Bytes(n) == <<n \div 256, n % 256>>

\* the bit pattern of an i16
I16Bits(v) == IF v < 0 THEN v + 65536 ELSE v

write_header(w) ==
    MThd \o U32Bytes(6) \o U16Bytes(w.format) \o U16Bytes(AsU16(VecLen(w.tracks)))
         \o U16Bytes(I16Bits(w.ticks))

\* write_all: the header, then the chunks in the order of the Vec
write_all(w) == [header |-> write_header(w), chunks |-> w.tracks]

(***************************************************************************)
(* SpecWrite: from_smf, write_all, and parse_header on what was written    *)
(***************************************************************************)
SampleTracks ==
    {Track(None, None, <<>>),
     Track(None, None, <<TrackEvent(U64Zero, NoteOn69), TrackEvent(U64Zero, EndOfTrack)>>)}

\* SMFs of 0, 1, 2, 65535, 65536 and 65537 tracks
SampleSmfs ==
    {SMF(format, tracks, division) :
        format \in DOMAIN SMFFormatValue,
        division \in {96, 0, -1, -32768, 32767},
        tracks \in {<<>>} \cup {<<Run(t, n)>> : t \in SampleTracks, n \in {1, 65535}}
                   \cup {<<Run(t, n), Run(u, 1)>> :
                            t \in SampleTracks, u \in SampleTracks, n \in {1, 65535, 65536}}}

InitWrite ==
    /\ TrackIdle
    /\ writer = NoWriter
    /\ chunks = <<>>
    /\ builder = NoBuilder
    /\ smf \in SampleSmfs
    /\ pc = "writer_from_smf"
    /\ val = U64Zero
    /\ stream = <<>>
    /\ pos = 1
    /\ wrote = NotWritten
    /\ ret = NoRet
    /\ result = NoRet

\* SMFWriter::from_smf(smf)
WriterFromSmf ==
    /\ pc = "writer_from_smf"
    /\ writer' = from_smf(smf)
    /\ pc' = "write_all"
    /\ UNCHANGED <<val, track, stream, pos, trackVars, wrote, ret, result, chunks, smf, builder>>

\* writer.write_all(sink)
WriteAll ==
    /\ pc = "write_all"
    /\ LET w == write_all(writer)
       IN  /\ stream' = w.header
           /\ chunks' = w.chunks
           /\ wrote' = Written("write_all", Len(w.header) + VecBytes(w.chunks))
    /\ pc' = "parse_header"
    /\ UNCHANGED <<val, track, pos, trackVars, ret, result, writer, smf, builder>>

NextWrite == WriterFromSmf \/ WriteAll \/ ParseHeader

SpecWrite == InitWrite /\ [][NextWrite]_vars

\* C18: write_all emits "MThd", the length 6, the format code, a 16-bit track
\* count equal to the number of tracks the writer holds, the division, then
\* the track chunks in the order they were added; parsing the header returns
\* the same format, division and number of tracks, for every number of
\* tracks the writer can hold.
C18_HeaderAgreement ==
    (pc = "header_done" /\ wrote.by = "write_all") =>
        /\ SubSeq(stream, 1, 8) = MThd \o <<0, 0, 0, 6>>
        /\ stream[9] * 256 + stream[10] = writer.format
        /\ stream[11] * 256 + stream[12] = VecLen(writer.tracks)
        /\ AsI16(stream[13] * 256 + stream[14]) = writer.ticks
        /\ chunks = writer.tracks
        /\ result.outcome = "Ok"
        /\ result.format = smf.format
        /\ result.division = smf.division
        /\ result.tracks = VecLen(smf.tracks)

(***************************************************************************)
(* reader.rs: read_smf                                                     *)
(***************************************************************************)
\* reading a file is under way: parse_header has returned an SMF
ReadingSmf == smf.format # ""

\* a track parser that is called once more than the header says
tracks_remaining_inclusive(s) == VecLen(s.tracks) <= s.capacity

\* "for _ in 0..s.tracks.capacity()": Vec::with_capacity(tracks) has room for
\* exactly the count of the header, and the pushes never grow it
tracks_remaining(s) == VecLen(s.tracks) < s.capacity

\* parse_header and the match on what it returned
ReadSmfHeader ==
    /\ pc = "read_smf"
    /\ LET h == parse_header(stream, pos)
           s == [format |-> h.format, division |-> h.division, capacity |-> h.tracks,
                 tracks |-> <<>>]
       IN  /\ pos' = h.pos
           /\ IF h.outcome # "Ok"
              THEN /\ smf' = NoSmf
                   /\ result' = Returned(h.outcome, h.err)
                   /\ pc' = "smf_failed"
              ELSE /\ smf' = s
                   /\ IF tracks_remaining(s)
                      THEN pc' = "parse_track" /\ result' = result
                      ELSE pc' = "smf_done" /\ result' = Returned("Ok", NoErr)
    /\ UNCHANGED <<val, track, stream, trackVars, wrote, ret, writer, chunks, builder>>

\* parse_track returned Ok: the track is pushed and the loop goes on or ends
ReadSmfPush ==
    /\ pc = "track_done"
    /\ ReadingSmf
    /\ LET s == [smf EXCEPT !.tracks = Append(@, Run(Track(copyright, name, res), 1))]
       IN  /\ smf' = s
           /\ IF tracks_remaining(s)
              THEN pc' = "parse_track" /\ result' = NoRet
              ELSE pc' = "smf_done" /\ result' = Returned("Ok", NoErr)
    /\ UNCHANGED <<val, track, stream, pos, trackVars, wrote, ret, writer, chunks, builder>>

\* parse_track failed: try! returns its error, the SMF read so far is dropped
ReadSmfFail ==
    /\ pc = "track_failed"
    /\ ReadingSmf
    /\ smf' = NoSmf
    /\ pc' = "smf_failed"
    /\ UNCHANGED <<val, track, stream, pos, trackVars, wrote, ret, result, writer, chunks,
                   builder>>

(***************************************************************************)
(* SpecSmf: read_smf on a header followed by track chunks                  *)
(***************************************************************************)
MaxSmfChunks == 3

\* two chunks that parse, one with a wrong magic, one whose event overruns
\* the declared length, one whose first event omits its status byte
SmfChunks ==
    { MTrk \o U32Bytes(4) \o <<0, 255, 47, 0>>,
      MTrk \o U32Bytes(8) \o <<0, 144, 69, 100, 0, 255, 47, 0>>,
      MThd \o U32Bytes(4) \o <<0, 255, 47, 0>>,
      MTrk \o U32Bytes(2) \o <<0, 255, 47, 0>>,
      MTrk \o U32Bytes(7) \o <<0, 69, 100, 0, 255, 47, 0>> }

\* headers that announce 0 to 3 tracks, and one with a format that fails
SmfHeaders ==
    {MThd \o U32Bytes(6) \o <<0, 1>> \o <<0, n>> \o <<0, 96>> : n \in 0..3}
    \cup {MThd \o U32Bytes(6) \o <<0, 3>> \o <<0, 1>> \o <<0, 96>>}

InitSmf ==
    /\ FileIdle
    /\ TrackIdle
    /\ pc = "read_smf"
    /\ val = U64Zero
    /\ \E h \in SmfHeaders, n \in 0..MaxSmfChunks :
          \E f \in [1..n -> SmfChunks] : stream = h \o Concat(f)
    /\ pos = 1
    /\ wrote = NotWritten
    /\ ret = NoRet
    /\ result = NoRet

NextSmf ==
    ReadSmfHeader \/ ParseTrackHeader \/ ParseTrackEvent \/ ReadSmfPush \/ ReadSmfFail

SpecSmf == InitSmf /\ [][NextSmf]_vars

\* where the i-th track chunk of the file starts
RECURSIVE ChunkStart(_)
ChunkStart(i) ==
    IF i = 1 THEN 15
    ELSE LET p == ChunkStart(i - 1)
         IN  p + 8 + BigEndian32(SubSeq(stream, p + 4, p + 7))

\* what read_smf has returned: the tracks the header announced, in file
\* order, or an error and no SMF
SmfReturned ==
    /\ pc = "smf_done" =>
           /\ result = Returned("Ok", NoErr)
           /\ VecLen(smf.tracks) = stream[11] * 256 + stream[12]
           /\ Len(smf.tracks) = stream[11] * 256 + stream[12]
           /\ \A i \in 1..Len(smf.tracks) :
                 from_smf_track(smf.tracks[i].item.events)
                     = SubSeq(stream, ChunkStart(i), ChunkStart(i + 1) - 1)
    /\ pc = "smf_failed" =>
           /\ result.outcome = "Err"
           /\ smf = NoSmf

\* C16: read_smf calls the track parser exactly as often as the 16-bit track
\* count of the header says, so a successful result holds that many tracks,
\* in file order; when the header or a track fails, read_smf returns that
\* error at once, parses no further track and returns no SMF.
C16_TrackCountAndPropagation ==
    /\ []SmfReturned
    /\ [][pc = "track_failed" => (pc' = "smf_failed" /\ pos' = pos /\ result' = result)]_vars

\* a file of two tracks read in file order, a third chunk left unread
C16_Witness ==
    /\ pc = "smf_done"
    /\ stream[12] = 2
    /\ Len(stream) > ChunkStart(3)
    /\ Len(smf.tracks) = 2
    /\ Len(smf.tracks[1].item.events) = 2
    /\ Len(smf.tracks[2].item.events) = 1

\* C24: at the start of every track's decode loop no running status is set,
\* whatever the previous tracks held; a first MIDI event that omits its
\* status byte makes the parse fail with an invalid-status error.
C24_RunningStatusPerTrack ==
    [][(pc = "track_loop" /\ res = <<>>) =>
          /\ last' = 0
          /\ ret'.was_running =>
                /\ ret'.outcome = "Err"
                /\ pc' = "track_failed"
                /\ result' = Returned("Err", MidiInvalidStatus(0))]_vars

\* a second track that starts with data bytes, after a track with a Note-On
C24_Witness ==
    /\ pc = "track_failed"
    /\ Len(smf.tracks) = 1
    /\ last_status(smf.tracks[1].item.events) = 144
    /\ res = <<>>
    /\ last = 0
    /\ ret # NoRet
    /\ ret.was_running
    /\ ret.start + 1 <= Len(stream)
    /\ stream[ret.start + 1] = 69
    /\ result = Returned("Err", MidiInvalidStatus(0))


(***************************************************************************)
(* builder.rs: Ord for AbsoluteEvent, the event heap, TrackBuilder::result *)
(***************************************************************************)
\* Ord::cmp: the time first; at equal times a meta event is less than a MIDI
\* message, meta events go by command, MIDI messages by data(0), then
\* data(1).  data(i) indexes the message's Vec and panics past its end.
cmp(a, b) ==
    LET me  == a.event
        you == b.event
    IN  IF U64Less(a.time, b.time) THEN "Less"
        ELSE IF U64Less(b.time, a.time) THEN "Greater"
        ELSE IF me.kind = "Midi" /\ you.kind = "Meta" THEN "Greater"
        ELSE IF me.kind = "Meta" /\ you.kind = "Midi" THEN "Less"
        ELSE IF me.kind = "Meta"
        THEN IF MetaCommandValue[me.command] < MetaCommandValue[you.command] THEN "Less"
             ELSE IF MetaCommandValue[me.command] > MetaCommandValue[you.command]
             THEN "Greater"
             ELSE "Equal"
        ELSE IF Len(me.data) < 1 \/ Len(you.data) < 1 THEN "Panic"
        ELSE IF me.data[1] < you.data[1] THEN "Less"
        ELSE IF me.data[1] > you.data[1] THEN "Greater"
        ELSE IF Len(me.data) < 2 \/ Len(you.data) < 2 THEN "Panic"
        ELSE IF me.data[2] < you.data[2] THEN "Less"
        ELSE IF me.data[2] > you.data[2] THEN "Greater"
        ELSE "Equal"

HeapOk(data) == [outcome |-> "Ok", data |-> data]
HeapPanic(data) == [outcome |-> "Panic", data |-> data]

\* BinaryHeap::sift_up: the element in the hole (an index counted from 0)
\* moves up while it is greater than its parent
RECURSIVE sift_up(_, _, _)
sift_up(data, hole, elt) ==
    LET parent == (hole - 1) \div 2
        c      == cmp(elt, data[parent + 1])
        here   == [data EXCEPT ![hole + 1] = elt]
    IN  IF hole = 0 THEN HeapOk(here)
        ELSE IF c = "Panic" THEN HeapPanic(here)
        ELSE IF c \in {"Less", "Equal"} THEN HeapOk(here)
        ELSE sift_up([data EXCEPT ![hole + 1] = data[parent + 1]], parent, elt)

\* BinaryHeap::push
heap_push(data, item) == sift_up(Append(data, item), Len(data), item)

\* BinaryHeap::sift_down_range: the element in the hole moves down
\* below the greater of its children, within the first `end` elements
RECURSIVE sift_down_range(_, _, _, _)
sift_down_range(data, hole, end, elt) ==
    LET child == 2 * hole + 1
        here  == [data EXCEPT ![hole + 1] = elt]
    IN  IF end >= 2 /\ child <= end - 2
        THEN LET c1   == cmp(data[child + 1], data[child + 2])
                 pick == IF c1 \in {"Less", "Equal"} THEN child + 1 ELSE child
                 c2   == cmp(elt, data[pick + 1])
             IN  IF c1 = "Panic" THEN HeapPanic(here)
                 ELSE IF c2 = "Panic" THEN HeapPanic(here)
                 ELSE IF c2 \in {"Greater", "Equal"} THEN HeapOk(here)
                 ELSE sift_down_range([data EXCEPT ![hole + 1] = data[pick + 1]],
                                      pick, end, elt)
        ELSE IF child = end - 1
        THEN LET c == cmp(elt, data[child + 1])
             IN  IF c = "Panic" THEN HeapPanic(here)
                 ELSE IF c = "Less"
                 THEN HeapOk([data EXCEPT ![hole + 1] = data[child + 1], ![child + 1] = elt])
                 ELSE HeapOk(here)
        ELSE HeapOk(here)

\* BinaryHeap::into_sorted_vec: the greatest element is swapped to the end
\* and the rest is made a heap again, until one element is left
RECURSIVE sorted_vec_loop(_, _)
sorted_vec_loop(data, end) ==
    IF end <= 1 THEN HeapOk(data)
    ELSE LET e       == end - 1
             swapped == [data EXCEPT ![1] = data[e + 1], ![e + 1] = data[1]]
             r       == sift_down_range(swapped, 0, e, swapped[1])
         IN  IF r.outcome = "Panic" THEN r ELSE sorted_vec_loop(r.data, e)

into_sorted_vec(data) == sorted_vec_loop(data, Len(data))

\* the loop of TrackBuilder::result: the delta-time is the time itself while
\* prev_time is 0, and time - prev_time after that
RECURSIVE result_events(_, _, _, _)
result_events(absevents, prev_time, events, overflow_checks) ==
    IF absevents = <<>> THEN [outcome |-> "Ok", events |-> events]
    ELSE LET ev    == Head(absevents)
             vtime == IF prev_time = U64Zero THEN ev.time
                      ELSE U64WrappingSub(ev.time, prev_time)
         IN  IF prev_time # U64Zero /\ U64Less(ev.time, prev_time) /\ overflow_checks
             THEN [outcome |-> "Panic", events |-> events]
             ELSE result_events(Tail(absevents), ev.time,
                                Append(events, TrackEvent(vtime, ev.event)), overflow_checks)

TrackBuilder(c, n, heap) == [copyright |-> c, name |-> n, events |-> heap]

\* TrackBuilder::result for a track that holds a heap
track_builder_result(tb, overflow_checks) ==
    LET sorted == into_sorted_vec(tb.events)
        made   == result_events(sorted.data, U64Zero, <<>>, overflow_checks)
    IN  IF sorted.outcome = "Panic" THEN [outcome |-> "Panic", track |-> Track(None, None, <<>>)]
        ELSE [outcome |-> made.outcome, track |-> Track(tb.copyright, tb.name, made.events)]

Panicked(m) == [outcome |-> "Panic", err |-> [kind |-> "panic", msg |-> m, byte |-> 0]]

\* add_midi_abs / add_meta_abs: the assert on the track index, then the push
\* onto the heap of that track
add_abs(b, trk, ev) ==
    LET pushed == heap_push(b.tracks[trk + 1].events, ev)
    IN  IF ~(Len(b.tracks) > trk)
        THEN [ret |-> Panicked("assertion failed: self.tracks.len() > track"), builder |-> b]
        ELSE [ret |-> IF pushed.outcome = "Panic" THEN Panicked("index out of bounds")
                      ELSE Returned("Ok", NoErr),
              builder |-> [b EXCEPT !.tracks[trk + 1].events = pushed.data]]

\* SMFBuilder::result: every track builder gives its track
builder_result(b, overflow_checks) ==
    LET made == [i \in 1..Len(b.tracks) |-> track_builder_result(b.tracks[i], overflow_checks)]
    IN  IF \E i \in 1..Len(made) : made[i].outcome = "Panic"
        THEN [ret |-> Panicked("panic in TrackBuilder::result"), smf |-> NoSmf]
        ELSE [ret |-> Returned("Ok", NoErr),
              smf |-> SMF("MultiTrack", [i \in 1..Len(made) |-> Run(made[i].track, 1)], 0)]

(***************************************************************************)
(* SpecBuilder: events added to one track of an SMFBuilder, then result()  *)
(***************************************************************************)
MaxBuilderEvents == 3

InitBuilder ==
    /\ FileIdle
    /\ TrackIdle
    /\ pc = "building"
    /\ val = U64Zero
    /\ stream = <<>>
    /\ pos = 1
    /\ wrote = NotWritten
    /\ ret = NoRet
    /\ result = NoRet

\* builder.add_track(), called once
BuilderAddTrack ==
    /\ pc = "building"
    /\ builder.tracks = <<>>
    /\ builder' = [builder EXCEPT !.tracks = Append(@, TrackBuilder(None, None, <<>>))]
    /\ UNCHANGED <<pc, val, track, stream, pos, trackVars, wrote, ret, result, writer, chunks,
                   smf>>

\* what an add call leaves behind; track keeps the events handed to the heap
Added(trk, ev) ==
    LET a == add_abs(builder, trk, ev)
    IN  /\ builder' = a.builder
        /\ result' = a.ret
        /\ pc' = IF a.ret.outcome = "Ok" THEN "building" ELSE "builder_panicked"
        /\ track' = IF Len(builder.tracks) > trk THEN Append(track, ev) ELSE track
        /\ UNCHANGED <<val, stream, pos, trackVars, wrote, ret, writer, chunks, smf>>

\* builder.add_midi_abs(trk, time, msg): a Note-On, a Note-Off or the
\* one-byte Timing-Clock message
AddMidiAbs ==
    /\ pc = "building"
    /\ Len(track) < MaxBuilderEvents
    /\ \E trk \in {0, 1}, time \in {U64(0), U64(5)},
          msg \in {NoteOn69, NoteOff69, MidiMessage(<<248>>)} :
          Added(trk, AbsoluteEvent(time, msg))

\* builder.add_meta_abs(trk, time, event)
AddMetaAbs ==
    /\ pc = "building"
    /\ Len(track) < MaxBuilderEvents
    /\ \E trk \in {0, 1}, time \in {U64(0), U64(5)},
          event \in {EndOfTrack, sequence_or_track_name(<<97, 98>>)} :
          Added(trk, AbsoluteEvent(time, event))

\* builder.result()
BuilderResult ==
    /\ pc = "building"
    /\ \E overflow_checks \in BOOLEAN :
          LET r == builder_result(builder, overflow_checks)
          IN  /\ smf' = r.smf
              /\ result' = r.ret
              /\ pc' = IF r.ret.outcome = "Ok" THEN "built" ELSE "builder_panicked"
    /\ UNCHANGED <<val, track, stream, pos, trackVars, wrote, ret, writer, chunks, builder>>

\* builder.set_copyright(trk, s): two asserts, then the field is set; the
\* construction of the copyright meta event is commented out in the source
SetCopyright ==
    /\ pc = "building"
    /\ \E trk \in {0, 1}, s \in {<<67>>, <<100, 101>>} :
          IF ~(Len(builder.tracks) > trk)
          THEN /\ result' = Panicked("assertion failed: self.tracks.len() > track")
               /\ pc' = "builder_panicked"
               /\ UNCHANGED builder
          ELSE IF ~(builder.tracks[trk + 1].copyright = None)
          THEN /\ result' = Panicked("assertion failed: self.tracks[track].copyright.is_none()")
               /\ pc' = "builder_panicked"
               /\ UNCHANGED builder
          ELSE /\ builder' = [builder EXCEPT !.tracks[trk + 1].copyright = Some(s)]
               /\ result' = Returned("Ok", NoErr)
               /\ pc' = "building"
    /\ UNCHANGED <<val, track, stream, pos, trackVars, wrote, ret, writer, chunks, smf>>

\* builder.set_name(trk, s)
SetName ==
    /\ pc = "building"
    /\ \E trk \in {0, 1}, s \in {<<97, 98>>, <<110>>} :
          IF ~(Len(builder.tracks) > trk)
          THEN /\ result' = Panicked("assertion failed: self.tracks.len() > track")
               /\ pc' = "builder_panicked"
               /\ UNCHANGED builder
          ELSE IF ~(builder.tracks[trk + 1].name = None)
          THEN /\ result' = Panicked("assertion failed: self.tracks[track].name.is_none()")
               /\ pc' = "builder_panicked"
               /\ UNCHANGED builder
          ELSE /\ builder' = [builder EXCEPT !.tracks[trk + 1].name = Some(s)]
               /\ result' = Returned("Ok", NoErr)
               /\ pc' = "building"
    /\ UNCHANGED <<val, track, stream, pos, trackVars, wrote, ret, writer, chunks, smf>>

NextBuilder ==
    BuilderAddTrack \/ AddMidiAbs \/ AddMetaAbs \/ SetCopyright \/ SetName \/ BuilderResult

SpecBuilder == InitBuilder /\ [][NextBuilder]_vars

\* the panics the builder documents: a track index out of range, a copyright
\* or a name set twice
DocumentedPanics ==
    {Panicked("assertion failed: self.tracks.len() > track"),
     Panicked("assertion failed: self.tracks[track].copyright.is_none()"),
     Panicked("assertion failed: self.tracks[track].name.is_none()")}

\* the sum of the delta-times of the first i events
RECURSIVE AbsTime(_, _)
AbsTime(events, i) == IF i = 0 THEN 0 ELSE AbsTime(events, i - 1) + U64ToNat(events[i].vtime)

\* C20: for a track made by add_track, after any add_midi_abs / add_meta_abs
\* calls in any order, result() gives a track that holds every inserted
\* event exactly once, whose cumulative delta-times are non-decreasing and
\* equal the absolute times the events were inserted with, and in which a
\* meta event comes before a MIDI event of the same absolute time.
C20_BuilderOrdering ==
    /\ (pc = "built" /\ Len(smf.tracks) = 1) =>
           LET events == smf.tracks[1].item.events
               n      == Len(events)
           IN  /\ n = Len(track)
               /\ \E f \in Permutations(1..n) :
                     \A i \in 1..n :
                        /\ events[i].event = track[f[i]].event
                        /\ AbsTime(events, i) = U64ToNat(track[f[i]].time)
               /\ \A i \in 1..n, j \in 1..n :
                     i < j =>
                        /\ AbsTime(events, i) <= AbsTime(events, j)
                        /\ AbsTime(events, i) = AbsTime(events, j) =>
                              ~(events[i].event.kind = "Midi" /\ events[j].event.kind = "Meta")
    /\ pc = "builder_panicked" => result \in DocumentedPanics

\* the track has a meta event of this command whose payload is the text
HasTextEvent(events, command, text) ==
    \E i \in 1..Len(events) :
       /\ events[i].event.kind = "Meta"
       /\ events[i].event.command = command
       /\ events[i].event.data = text

\* C21: after set_copyright(track, s) (resp. set_name) on a valid track
\* whose copyright (resp. name) was not set, the track result() returns has
\* copyright (resp. name) = Some(s) and its events hold a CopyrightNotice
\* (resp. SequenceOrTrackName) meta event carrying s; a call with an index
\* out of range or a second call on the same track panics.
C21_NameCopyrightMirror ==
    /\ (pc = "built" /\ Len(smf.tracks) = 1) =>
           LET made == smf.tracks[1].item
               tb   == builder.tracks[1]
           IN  /\ made.copyright = tb.copyright
               /\ made.name = tb.name
               /\ made.copyright # None =>
                     HasTextEvent(made.events, "CopyrightNotice", made.copyright[1])
               /\ made.name # None =>
                     HasTextEvent(made.events, "SequenceOrTrackName", made.name[1])
    /\ (pc = "builder_panicked"
          /\ result = Panicked("assertion failed: self.tracks[track].copyright.is_none()")) =>
           \E i \in 1..Len(builder.tracks) : builder.tracks[i].copyright # None
    /\ (pc = "builder_panicked"
          /\ result = Panicked("assertion failed: self.tracks[track].name.is_none()")) =>
           \E i \in 1..Len(builder.tracks) : builder.tracks[i].name # None

(***************************************************************************)
(* lib.rs: SMF::to_multi_track                                             *)
(***************************************************************************)
CHANNEL_MASK == 15

\* a + b modulo 2^64
RECURSIVE add_limbs(_, _, _, _)
add_limbs(a, b, k, carry) ==
    IF k > U64Limbs THEN <<>>
    ELSE LET base == IF k = U64Limbs THEN 2 ELSE 128
             d    == a[k] + b[k] + carry
         IN  <<d % base>> \o add_limbs(a, b, k + 1, d \div base)

U64WrappingAdd(a, b) == add_limbs(a, b, 1, 0)

Converted(o, v) == [outcome |-> o, val |-> v]

\* a channel() that finds no channel in any message
channel_none(msg) == Converted("Ok", None)

\* MidiMessage::channel: status() indexes data[0] and unwraps
\* Status::from_u8(data[0] & STATUS_MASK)
channel(msg) ==
    IF Len(msg.data) = 0 THEN Converted("Panic", None)
    ELSE LET st == StatusFromU8(BitAnd(msg.data[1], STATUS_MASK))
         IN  IF st = None THEN Converted("Panic", None)
             ELSE IF StatusValue[st[1]] < StatusValue.SysExStart
             THEN Converted("Ok", Some(BitAnd(msg.data[1], CHANNEL_MASK)))
             ELSE Converted("Ok", None)

\* the first loop of the Single arm: every event goes, with its absolute
\* time, to tracks[channel + 1] or to tracks[0]
RECURSIVE split_events(_, _, _, _, _)
split_events(events, i, time, tracks, overflow_checks) ==
    IF i > Len(events) THEN Converted("Ok", tracks)
    ELSE LET event == events[i]
             t     == U64WrappingAdd(time, event.vtime)
             ch    == IF event.event.kind = "Midi" THEN channel(event.event)
                      ELSE Converted("Ok", None)
             slot  == IF ch.val = None THEN 1 ELSE ch.val[1] + 2
         IN  IF overflow_checks /\ U64Less(t, time) THEN Converted("Panic", tracks)
             ELSE IF ch.outcome = "Panic" THEN Converted("Panic", tracks)
             ELSE split_events(events, i + 1, t,
                               [tracks EXCEPT ![slot] = Append(@, TrackEvent(t, event.event))],
                               overflow_checks)

\* the iter_mut loop: absolute times back to delta-times
RECURSIVE to_deltas(_, _, _, _)
to_deltas(events, i, time, overflow_checks) ==
    IF i > Len(events) THEN Converted("Ok", events)
    ELSE IF overflow_checks /\ U64Less(events[i].vtime, time) THEN Converted("Panic", events)
    ELSE to_deltas([events EXCEPT ![i].vtime = U64WrappingSub(@, time)], i + 1,
                   events[i].vtime, overflow_checks)

\* the second loop: a Track is pushed for every non-empty event list
RECURSIVE push_tracks(_, _, _, _)
push_tracks(tracks, i, out, overflow_checks) ==
    IF i > Len(tracks) THEN Converted("Ok", out)
    ELSE IF Len(tracks[i]) > 0
    THEN LET d == to_deltas(tracks[i], 1, U64Zero, overflow_checks)
         IN  IF d.outcome = "Panic" THEN Converted("Panic", out)
             ELSE push_tracks(tracks, i + 1, Append(out, Run(Track(None, None, d.val), 1)),
                              overflow_checks)
    ELSE push_tracks(tracks, i + 1, out, overflow_checks)

to_multi_track(s, overflow_checks) ==
    IF s.format = "MultiTrack" THEN Converted("Ok", Some(s))
    ELSE IF s.format = "MultiSong" THEN Converted("Ok", None)
    ELSE IF VecLen(s.tracks) = 0 THEN Converted("Panic", None)
    ELSE LET first  == s.tracks[1].item
             split  == split_events(first.events, 1, U64Zero, [k \in 1..17 |-> <<>>],
                                    overflow_checks)
             pushed == push_tracks(split.val, 1, <<>>, overflow_checks)
         IN  IF split.outcome = "Panic" \/ pushed.outcome = "Panic"
             THEN Converted("Panic", None)
             ELSE IF pushed.val = <<>> THEN Converted("Panic", None)
             ELSE Converted("Ok",
                     Some(SMF("MultiTrack",
                              [pushed.val EXCEPT ![1].item.name = first.name,
                                                 ![1].item.copyright = first.copyright],
                              s.division)))

(***************************************************************************)
(* SpecConvert: to_multi_track applied to one in-memory SMF                *)
(***************************************************************************)
MaxConvertEvents == 3

\* SMFs of one track whose events are Note-Ons on channel 0 and on channel 1,
\* a meta event and a SysEx message
ConvertSmfs ==
    {SMF(format, <<Run(Track(text[1], text[2], events), 1)>>, division) :
        format \in DOMAIN SMFFormatValue,
        text \in {<<None, None>>, <<Some(<<67>>), Some(<<110>>)>>},
        events \in SeqsUpTo({TrackEvent(vtime, event) :
                                vtime \in {U64Zero, U64(5), TwoPow63},
                                event \in {NoteOn69, MidiMessage(<<145, 69, 100>>),
                                           EndOfTrack, MidiMessage(<<240, 1, 247>>)}},
                            MaxConvertEvents),
        division \in {96}}

InitConvert ==
    /\ TrackIdle
    /\ writer = NoWriter
    /\ chunks = <<>>
    /\ builder = NoBuilder
    /\ smf \in ConvertSmfs
    /\ pc = "to_multi_track"
    /\ val = U64Zero
    /\ track = <<>>
    /\ stream = <<>>
    /\ pos = 1
    /\ wrote = NotWritten
    /\ ret = NoRet
    /\ result = NoRet

\* smf.to_multi_track(), built with or without overflow checks
ToMultiTrack ==
    /\ pc = "to_multi_track"
    /\ \E overflow_checks \in BOOLEAN :
          /\ ret' = to_multi_track(smf, overflow_checks)
          /\ pc' = IF ret'.outcome = "Ok" THEN "converted" ELSE "convert_panicked"
    /\ UNCHANGED <<val, track, stream, pos, trackVars, wrote, result, fileVars>>

SpecConvert == InitConvert /\ [][ToMultiTrack]_vars

\* C22: to_multi_track returns None exactly for a MultiSong SMF; for a
\* MultiTrack SMF it returns an SMF equal to the input; for every Single
\* SMF, also one whose track has no events or only channel messages, it
\* returns Some SMF of format MultiTrack with the same division whose
\* track 0 carries the name and the copyright of the input track.
C22_ToMultiTrackResultKind ==
    pc # "to_multi_track" =>
       /\ pc = "converted"
       /\ ret.val = None <=> smf.format = "MultiSong"
       /\ smf.format = "MultiTrack" => ret.val = Some(smf)
       /\ smf.format = "Single" =>
             /\ ret.val # None
             /\ ret.val[1].format = "MultiTrack"
             /\ ret.val[1].division = smf.division
             /\ ret.val[1].tracks[1].item.name = smf.tracks[1].item.name
             /\ ret.val[1].tracks[1].item.copyright = smf.tracks[1].item.copyright

\* the absolute time of the i-th event as a number beyond 64 bits: how
\* often the u64 sum of the delta-times wrapped, and the u64 sum
RECURSIVE WideTime(_, _)
WideTime(events, i) ==
    IF i = 0 THEN [hi |-> 0, lo |-> U64Zero]
    ELSE LET p  == WideTime(events, i - 1)
             lo == U64WrappingAdd(p.lo, events[i].vtime)
         IN  [hi |-> p.hi + (IF U64Less(lo, p.lo) THEN 1 ELSE 0), lo |-> lo]

ConvertInput == smf.tracks[1].item.events

OutEvents(j) == ret.val[1].tracks[j].item.events

OutPositions ==
    UNION {{<<j, k>> : k \in 1..Len(OutEvents(j))} : j \in 1..Len(ret.val[1].tracks)}

IsChannelMessage(e) == e.kind = "Midi" /\ e.data[1] \in 128..239

\* what the claim says of the tracks returned for the Single SMF in smf
TimingAndRouting ==
    LET n == Len(ConvertInput)
    IN  /\ \E f \in [1..n -> OutPositions] :
              /\ \A i, i2 \in 1..n : i # i2 => f[i] # f[i2]
              /\ \A q \in OutPositions : \E i \in 1..n : f[i] = q
              /\ \A i \in 1..n :
                    /\ OutEvents(f[i][1])[f[i][2]].event = ConvertInput[i].event
                    /\ WideTime(OutEvents(f[i][1]), f[i][2]) = WideTime(ConvertInput, i)
              /\ \A i, i2 \in 1..n : (i < i2 /\ f[i][1] = f[i2][1]) => f[i][2] < f[i2][2]
        /\ \A j \in 1..Len(ret.val[1].tracks) :
              /\ Len(OutEvents(j)) > 0
              /\ \/ \A k \in 1..Len(OutEvents(j)) :
                       /\ IsChannelMessage(OutEvents(j)[k].event)
                       /\ OutEvents(j)[k].event.data[1] % 16 = OutEvents(j)[1].event.data[1] % 16
                 \/ \A k \in 1..Len(OutEvents(j)) : ~IsChannelMessage(OutEvents(j)[k].event)

StatusBytesSet ==
    \A i \in 1..Len(ConvertInput) :
       ConvertInput[i].event.kind = "Midi" =>
          (Len(ConvertInput[i].event.data) > 0 /\ ConvertInput[i].event.data[1] >= 128)

====
